------------------------ MODULE ConversationProofs ------------------------
(***************************************************************************)
(* Why the conversations of the bot are safe: TLAPS proofs about           *)
(* Conversation for any number of users, handlers at a time, updates and   *)
(* restarts.                                                               *)
(*                                                                         *)
(* A handler reads the conversation once and then makes the effects it     *)
(* planned.  The invariant says of every conversation in h.states, of      *)
(* every one a handler is about to store, and of every call it is about to *)
(* make, where it came from; and of a conversation that no second handler  *)
(* crossed, that one handler has it in hand.                               *)
(***************************************************************************)
EXTENDS Conversation, TLAPS, SequenceTheorems

Effects ==
    [op : {"set", "show"}, user : Users, st : State] \cup
    [op : {"do", "retire"}, user : Users, st : State, message : Nat]

Message == [user : Users, st : State, buttons : BOOLEAN]

ServiceCall == [user : Users, st : State, by : Nat]

Shape ==
    /\ states \in [Users -> State]
    /\ run \in [Goroutines -> Seq(Effects)]
    /\ messages \in Seq(Message) /\ done \in Seq(ServiceCall)
    /\ latest \in [Users -> 0..MaxUpdates] /\ crossed \subseteq 0..MaxUpdates
    /\ updates \in 0..MaxUpdates /\ restarts \in 0..MaxRestarts

(* What is left of a plan: a call comes after the conversation was deleted *)
(* and before nothing but the edit of the message.                         *)
PlanOK(r) ==
    \A i \in DOMAIN r : r[i].op = "do" =>
        /\ i = 1 \/ (i = 2 /\ r[1] = Del(r[2].user))
        /\ \A j \in DOMAIN r : j > i => r[j].op = "retire"

(* A conversation that is stored: it has begun with an update, a call from *)
(* it is meant by its user, and an admin's one is the owner's.             *)
StateOK(u, st) ==
    /\ st # NoState => st.born \in 1..updates
    /\ st.step = "confirm" \/ st.kind \in Settling => Wish(u, st) \in meant
    /\ st.kind \in AdminKinds => u = BotOwner

(* A call that is made.                                                    *)
CallOK(u, st) ==
    /\ st.born \in 1..updates
    /\ Wish(u, st) \in meant
    /\ st.kind \in AdminKinds => u = BotOwner

StoredOK == \A u \in Users : StateOK(u, states[u])

PlannedOK ==
    \A g \in Goroutines :
        /\ PlanOK(run[g])
        /\ \A i \in DOMAIN run[g] : LET e == run[g][i] IN
              /\ e.op = "set" => StateOK(e.user, e.st)
              /\ e.op = "do" => CallOK(e.user, e.st)

DoneOK == \A n \in DOMAIN done : CallOK(done[n].user, done[n].st)

(* A conversation no other handler crossed is carried out once: when it    *)
(* was, nobody stores it or calls for it again, and as long as a call is   *)
(* planned its handler is the only one of the user, and the conversation   *)
(* is deleted before it.                                                   *)
OnceOK ==
    \A u \in Users : \A b \in Nat \ crossed :
        /\ \A m, n \in DOMAIN done :
              /\ done[m].user = u /\ done[m].st.born = b
              /\ done[n].user = u /\ done[n].st.born = b
              => m = n
        /\ \A n \in DOMAIN done : done[n].user = u /\ done[n].st.born = b =>
              /\ states[u].born # b
              /\ \A g \in Goroutines : \A i \in DOMAIN run[g] :
                    run[g][i].user = u /\ run[g][i].op \in {"set", "do"} =>
                       run[g][i].st.born # b
        /\ \A g \in Goroutines : \A i \in DOMAIN run[g] :
              run[g][i].op = "do" /\ run[g][i].user = u /\ run[g][i].st.born = b =>
                 /\ \A h \in Goroutines : \A j \in DOMAIN run[h] : run[h][j].user = u => h = g
                 /\ i = 1 => states[u].born # b

(* The conversation a user began last is the one that is stored, unless it *)
(* is still to be stored or another handler crossed.                       *)
LatestOK ==
    \A u \in Users :
        /\ \A g \in Goroutines : \A i \in DOMAIN run[g] :
              run[g][i].op = "set" /\ run[g][i].user = u =>
                 run[g][i].st.born \in {0, latest[u]} \cup crossed
        /\ \/ states[u].born \in {0, latest[u]} \cup crossed
           \/ \E g \in Goroutines : \E i \in DOMAIN run[g] :
                 run[g][i].op = "set" /\ run[g][i].user = u

TalkInv == Shape /\ StoredOK /\ PlannedOK /\ DoneOK /\ OnceOK /\ LatestOK

-----------------------------------------------------------------------------
(* The steps, reduced to what a handler reads and plans.                   *)

(* A plan made by a handler of u.                                          *)
Planned(u, plan) ==
    \A i \in DOMAIN plan :
        /\ plan[i].user = u
        /\ plan[i].op = "set" =>
              /\ StateOK(u, plan[i].st)'
              /\ \/ plan[i].st.born \in {0, states[u].born} /\ latest' = latest
                 \/ plan[i].st.born = updates + 1 /\ latest' = [latest EXCEPT ![u] = updates + 1]
        /\ plan[i].op = "do" =>
              /\ CallOK(u, plan[i].st)'
              /\ plan[i].st.born = states[u].born /\ latest' = latest

Reads(g, u, plan) ==
    /\ Update(g, plan) /\ Head(plan).user = u /\ plan # << >> /\ plan[1].op = "set"
    /\ PlanOK(plan) /\ Planned(u, plan)
    /\ meant \subseteq meant'
    /\ \/ latest' = latest
       \/ latest' = [latest EXCEPT ![u] = updates + 1]

StepKind ==
    \/ \E g \in Goroutines, u \in Users, plan \in Seq(Effects) : Reads(g, u, plan)
    \/ \E g \in Goroutines : Effect(g)
    \/ Restart
    \/ UNCHANGED vars

LEMMA EffectFields ==
    ASSUME NEW e \in Effects
    PROVE  /\ e.op \in {"set", "show", "do", "retire"} /\ e.user \in Users /\ e.st \in State
           /\ e.op \in {"do", "retire"} => e.message \in Nat
  <1>1. CASE e \in [op : {"set", "show"}, user : Users, st : State]
    BY <1>1
  <1>2. CASE e \in [op : {"do", "retire"}, user : Users, st : State, message : Nat]
    BY <1>2
  <1>. QED  BY <1>1, <1>2 DEF Effects

LEMMA NoStateIs ==
    /\ NoState \in State /\ NoState.step = "none" /\ NoState.kind = "none" /\ NoState.born = 0
    /\ "none" \notin AdminKinds
  BY ConversationAssumption DEF NoState, State, AdminKinds, Settling

(* The plans.                                                              *)
LEMMA EffectsAre ==
    ASSUME NEW u \in Users, NEW st \in State, NEW m \in Nat
    PROVE  /\ Set(u, st) \in Effects /\ Set(u, st).op = "set"
           /\ Set(u, st).user = u /\ Set(u, st).st = st
           /\ Del(u) \in Effects /\ Del(u).op = "set" /\ Del(u).user = u /\ Del(u).st = NoState
           /\ Show(u, st) \in Effects /\ Show(u, st).op = "show" /\ Show(u, st).user = u
           /\ Do(u, st, m) \in Effects /\ Do(u, st, m).op = "do"
           /\ Do(u, st, m).user = u /\ Do(u, st, m).st = st
           /\ Retire(u, st, m) \in Effects /\ Retire(u, st, m).op = "retire"
           /\ Retire(u, st, m).user = u
  BY NoStateIs DEF Effects, Set, Del, Show, Do, Retire

(* A plan of stored conversations only.                                    *)
LEMMA SetsPlan ==
    ASSUME NEW a \in Effects, NEW b \in Effects, a.op = "set", b.op # "do"
    PROVE  /\ <<a>> \in Seq(Effects) /\ PlanOK(<<a>>) /\ <<a>> # << >>
           /\ <<a, b>> \in Seq(Effects) /\ PlanOK(<<a, b>>) /\ <<a, b>> # << >>
  BY DEF PlanOK

(* A plan with a call.                                                     *)
LEMMA CallPlan ==
    ASSUME NEW u \in Users, NEW b \in Effects, NEW c \in Effects,
           b.op = "do", b.user = u, c.op = "retire"
    PROVE  /\ <<Del(u), b>> \in Seq(Effects) /\ PlanOK(<<Del(u), b>>)
           /\ <<Del(u), b, c>> \in Seq(Effects) /\ PlanOK(<<Del(u), b, c>>)
  <1>1. NoState \in State /\ 0 \in Nat
    BY NoStateIs
  <1>2. Del(u) \in Effects /\ Del(u).op = "set"
    BY <1>1, EffectsAre
  <1>. DEFINE d == Del(u)
  <1>3. d \in Effects /\ d.op = "set" /\ d = Del(b.user)
    BY <1>2
  <1>. HIDE DEF d
  <1>4. <<d, b>> \in Seq(Effects) /\ <<d, b, c>> \in Seq(Effects)
    BY <1>3
  <1>5. PlanOK(<<d, b>>)
    BY <1>3 DEF PlanOK
  <1>6. PlanOK(<<d, b, c>>)
    BY <1>3 DEF PlanOK
  <1>. QED  BY <1>4, <1>5, <1>6 DEF d

(* What was so of a conversation before an update is so after it.          *)
LEMMA StateStays ==
    ASSUME Shape, NEW u \in Users, NEW st \in State, meant \subseteq meant',
           updates' = updates \/ updates' = updates + 1
    PROVE  /\ StateOK(u, st) => StateOK(u, st)'
           /\ CallOK(u, st) => CallOK(u, st)'
           /\ StateOK(u, NoState)'
  <1>1. updates \in Nat /\ MaxUpdates \in Nat
    BY ConversationAssumption DEF Shape
  <1>2. \A n \in 1..updates : n \in 1..updates'
    BY <1>1
  <1>3. StateOK(u, st) => StateOK(u, st)'
    BY <1>2 DEF StateOK
  <1>4. CallOK(u, st) => CallOK(u, st)'
    BY <1>2 DEF CallOK
  <1>5. StateOK(u, NoState)'
    BY NoStateIs DEF StateOK, Settling
  <1>. QED  BY <1>3, <1>4, <1>5

(* A handler that stores a conversation, and may then do something else.   *)
LEMMA StoresReads ==
    ASSUME Shape, NEW g \in Goroutines, NEW u \in Users, NEW st \in State, NEW b \in Effects,
           Update(g, <<Set(u, st)>>) \/ Update(g, <<Set(u, st), b>>),
           b.op # "do", b.user = u, b.op = "set" => b.st = NoState /\ latest' = latest,
           meant \subseteq meant', StateOK(u, st)',
           \/ st.born \in {0, states[u].born} /\ latest' = latest
           \/ st.born = updates + 1 /\ latest' = [latest EXCEPT ![u] = updates + 1]
    PROVE  \E plan \in Seq(Effects) : Reads(g, u, plan)
  <1>. DEFINE a == Set(u, st)
  <1>1. 0 \in Nat
    OBVIOUS
  <1>2. a \in Effects /\ a.op = "set" /\ a.user = u /\ a.st = st
    BY <1>1, EffectsAre
  <1>3. NoState.born = 0 /\ StateOK(u, NoState)'
    <2>1. updates' = updates + 1
      BY DEF Update
    <2>. QED  BY <2>1, NoStateIs, StateStays
  <1>4. Update(g, <<a>>) \/ Update(g, <<a, b>>)
    OBVIOUS
  <1>. HIDE DEF a
  <1>5. /\ \/ latest' = latest
           \/ latest' = [latest EXCEPT ![u] = updates + 1]
        /\ \/ a.st.born \in {0, states[u].born} /\ latest' = latest
           \/ a.st.born = updates + 1
        /\ StateOK(u, a.st)'
    BY <1>2
  <1>6. b.op = "set" => /\ StateOK(u, b.st)'
                        /\ b.st.born \in {0, states[u].born} /\ latest' = latest
    BY <1>3
  <1>7. ASSUME NEW plan \in Seq(Effects), plan \in {<<a>>, <<a, b>>}, Update(g, plan)
        PROVE  Reads(g, u, plan)
    <2>0. PlanOK(<<a>>) /\ PlanOK(<<a, b>>)
      BY <1>2, SetsPlan
    <2>1. PlanOK(plan) /\ plan # << >> /\ plan[1] = a /\ Head(plan) = a
      BY <1>7, <2>0
    <2>2. \A i \in DOMAIN plan : plan[i] = a \/ plan[i] = b
      BY <1>7
    <2>3. Planned(u, plan)
      BY <1>2, <1>5, <1>6, <2>2 DEF Planned
    <2>. QED  BY <1>2, <1>5, <1>7, <2>1, <2>3 DEF Reads
  <1>8. <<a>> \in Seq(Effects) /\ <<a, b>> \in Seq(Effects)
    BY <1>2
  <1>. QED  BY <1>4, <1>7, <1>8

(* A handler that calls the wallet service.                                *)
LEMMA CallsReads ==
    ASSUME Shape, NEW g \in Goroutines, NEW u \in Users, NEW st \in State, NEW m \in Nat,
           \/ Update(g, <<Del(u), Do(u, st, m)>>)
           \/ Update(g, <<Del(u), Do(u, st, m), Retire(u, st, m)>>),
           meant \subseteq meant', CallOK(u, st)', st.born = states[u].born, latest' = latest
    PROVE  \E plan \in Seq(Effects) : Reads(g, u, plan)
  <1>. DEFINE a == Del(u)
              b == Do(u, st, m)
              c == Retire(u, st, m)
  <1>1. /\ a \in Effects /\ a.op = "set" /\ a.user = u /\ a.st = NoState
        /\ b \in Effects /\ b.op = "do" /\ b.user = u /\ b.st = st
        /\ c \in Effects /\ c.op = "retire" /\ c.user = u
    BY EffectsAre
  <1>2. NoState.born = 0 /\ StateOK(u, NoState)'
    <2>1. updates' = updates + 1
      BY DEF Update
    <2>. QED  BY <2>1, NoStateIs, StateStays
  <1>3. /\ <<a, b>> \in Seq(Effects) /\ PlanOK(<<a, b>>)
        /\ <<a, b, c>> \in Seq(Effects) /\ PlanOK(<<a, b, c>>)
    <2>. HIDE DEF b, c
    <2>. QED  BY <1>1, CallPlan
  <1>4. Update(g, <<a, b>>) \/ Update(g, <<a, b, c>>)
    OBVIOUS
  <1>. HIDE DEF a, b, c
  <1>5. ASSUME NEW plan \in Seq(Effects), plan \in {<<a, b>>, <<a, b, c>>}, Update(g, plan)
        PROVE  Reads(g, u, plan)
    <2>1. PlanOK(plan) /\ plan # << >> /\ plan[1] = a /\ Head(plan) = a
      <3>1. PlanOK(plan)
        BY <1>3, <1>5
      <3>2. CASE plan = <<a, b>>
        BY <3>1, <3>2
      <3>3. CASE plan = <<a, b, c>>
        BY <3>1, <3>3
      <3>. QED  BY <1>5, <3>2, <3>3
    <2>2. \A i \in DOMAIN plan : plan[i] = a \/ plan[i] = b \/ plan[i] = c
      BY <1>5
    <2>3. StateOK(u, a.st)' /\ a.st.born = 0 /\ CallOK(u, b.st)' /\ b.st.born = states[u].born
      BY <1>1, <1>2
    <2>4. Planned(u, plan)
      BY <1>1, <2>2, <2>3 DEF Planned
    <2>. QED  BY <1>1, <1>5, <2>1, <2>4 DEF Reads
  <1>. QED  BY <1>3, <1>4, <1>5

(* The handlers of texts and buttons read, plan and no more.               *)
LEMMA BeginReads ==
    ASSUME Shape, NEW g \in Goroutines, NEW u \in Users, NEW kind \in Offered,
           Begin(g, u, kind) \/ \E r \in Requests : Choose(g, u, kind, r)
    PROVE  \E plan \in Seq(Effects) : Reads(g, u, plan)
  <1>0. updates \in Nat /\ updates < MaxUpdates /\ MaxUpdates \in Nat /\ updates' = updates + 1
    <2>1. updates \in Nat /\ MaxUpdates \in Nat
      BY ConversationAssumption DEF Shape
    <2>2. updates < MaxUpdates /\ updates' = updates + 1
      BY DEF Begin, Choose, Update
    <2>. QED  BY <2>1, <2>2
  <1>1. /\ Fresh(kind) \in State /\ Fresh(kind).kind = kind /\ Fresh(kind).born = updates + 1
        /\ Fresh(kind).step # "confirm"
    <2>1. kind \in Kinds
      BY ConversationAssumption
    <2>2. PICK s \in {"target", "none"} : s = IF kind \in ConfirmedKinds THEN "target" ELSE "none"
      OBVIOUS
    <2>3. Fresh(kind) = [kind |-> kind, step |-> s, target |-> Nothing, amount |-> 0,
                         born |-> updates + 1]
      <3>1. Fresh(kind) = [NoState EXCEPT !.kind = kind, !.born = updates + 1, !.step = s]
        BY <2>2 DEF Fresh
      <3>. QED  BY <3>1 DEF NoState
    <2>4. updates + 1 \in 0..MaxUpdates
      BY <1>0
    <2>5. Fresh(kind) \in State
      BY <2>1, <2>2, <2>3, <2>4 DEF State
    <2>. QED  BY <2>2, <2>3, <2>5
  <1>2. 0 \in Nat /\ Del(u) \in Effects /\ Del(u).op = "set" /\ Del(u).user = u
    BY EffectsAre, NoStateIs
  <1>3. ASSUME Begin(g, u, kind)  PROVE \E plan \in Seq(Effects) : Reads(g, u, plan)
    <2>1. PICK st \in State : /\ st = Fresh(kind) /\ st.kind = kind /\ st.born = updates + 1
                              /\ st.step # "confirm"
      BY <1>1
    <2>2. /\ Update(g, <<Set(u, st)>>) /\ latest' = [latest EXCEPT ![u] = updates + 1]
          /\ meant' = meant
      BY <1>3, <2>1 DEF Begin
    <2>3. kind \notin Settling /\ (kind \in AdminKinds => u = BotOwner)
      BY <1>3 DEF Begin, IsAdmin
    <2>4. StateOK(u, st)'
      BY <1>0, <2>1, <2>3 DEF StateOK
    <2>5. PICK b \in Effects : b.op = "show" /\ b.user = u
      BY <2>1, <1>2, EffectsAre
    <2>. QED  BY <2>1, <2>2, <2>4, <2>5, StoresReads
  <1>4. ASSUME NEW r \in Requests, Choose(g, u, kind, r)
        PROVE  \E plan \in Seq(Effects) : Reads(g, u, plan)
    <2>1. PICK st \in State : st = [Fresh(kind) EXCEPT !.target = r]
      BY <1>1 DEF State
    <2>2. st.kind = kind /\ st.born = updates + 1 /\ st.step # "confirm"
      BY <1>1, <2>1 DEF State
    <2>3. /\ Update(g, <<Set(u, st)>>) /\ latest' = [latest EXCEPT ![u] = updates + 1]
          /\ meant' = meant \cup {Wish(u, st)} /\ u = BotOwner
      BY <1>4, <2>1 DEF Choose, IsAdmin
    <2>4. StateOK(u, st)'
      BY <1>0, <2>2, <2>3 DEF StateOK
    <2>5. PICK b \in Effects : b.op = "show" /\ b.user = u
      BY <2>1, <1>2, EffectsAre
    <2>. QED  BY <2>2, <2>3, <2>4, <2>5, StoresReads
  <1>. QED  BY <1>3, <1>4

LEMMA TextReads ==
    ASSUME Shape, StoredOK, NEW g \in Goroutines, NEW u \in Users,
           \/ TextCancel(g, u)
           \/ \E x \in Users \cup Addresses : TextTarget(g, u, x)
           \/ \E a \in Amounts : TextAmount(g, u, a)
           \/ TextLookup(g, u)
    PROVE  \E plan \in Seq(Effects) : Reads(g, u, plan)
  <1>0. updates \in Nat /\ MaxUpdates \in Nat /\ updates' = updates + 1
    <2>1. \E plan : Update(g, plan)
      <3>1. CASE TextCancel(g, u)
        BY <3>1 DEF TextCancel
      <3>2. ASSUME NEW x \in Users \cup Addresses, TextTarget(g, u, x)
            PROVE  \E plan : Update(g, plan)
        BY <3>2 DEF TextTarget
      <3>3. ASSUME NEW a \in Amounts, TextAmount(g, u, a)
            PROVE  \E plan : Update(g, plan)
        BY <3>3 DEF TextAmount
      <3>4. CASE TextLookup(g, u)
        BY <3>4 DEF TextLookup
      <3>. QED  BY <3>1, <3>2, <3>3, <3>4
    <2>2. updates' = updates + 1
      BY <2>1 DEF Update
    <2>. QED  BY <2>2, ConversationAssumption DEF Shape
  <1>1. PICK v \in State : v = states[u]
    BY DEF Shape
  <1>2. StateOK(u, v)
    BY <1>1 DEF StoredOK
  <1>3. /\ NoState \in State /\ NoState.born = 0 /\ 0 \in Nat
        /\ Del(u) \in Effects /\ Del(u).op = "set" /\ Del(u).user = u /\ Del(u).st = NoState
        /\ Del(u) = Set(u, NoState)
    BY EffectsAre, NoStateIs DEF Del
  <1>4. ASSUME Update(g, <<Del(u)>>), meant' = meant, latest' = latest
        PROVE  \E plan \in Seq(Effects) : Reads(g, u, plan)
    <2>1. StateOK(u, NoState)' /\ meant \subseteq meant'
      BY <1>0, <1>1, <1>4, StateStays
    <2>2. Update(g, <<Set(u, NoState)>>)
      BY <1>3, <1>4
    <2>. QED  BY <1>3, <1>4, <2>1, <2>2, StoresReads
  <1>5. ASSUME NEW x \in Users \cup Addresses, TextTarget(g, u, x)
        PROVE  \E plan \in Seq(Effects) : Reads(g, u, plan)
    <2>1. PICK st \in State : st = WithTarget(v, x)
      BY <1>1 DEF WithTarget, State
    <2>2. st.kind = v.kind /\ st.step = "amount" /\ st.born = v.born
      BY <2>1 DEF WithTarget, State
    <2>3. v.step = "target" /\ x \in Targets(v.kind, u) /\ meant' = meant /\ latest' = latest
      BY <1>1, <1>5 DEF TextTarget
    <2>4. v.kind \notin Settling
      <3>1. Targets(v.kind, u) # {}
        BY <2>3
      <3>. QED  BY <3>1 DEF Targets, Settling
    <2>5. v # NoState
      BY <2>3, NoStateIs
    <2>6. StateOK(u, st)
      BY <1>2, <2>2, <2>4, <2>5 DEF StateOK
    <2>7. StateOK(u, st)'
      BY <1>0, <2>3, <2>6, StateStays
    <2>8. Update(g, <<Set(u, st)>>) \/ Update(g, <<Set(u, st), Del(u)>>)
      BY <1>1, <1>5, <2>1 DEF TextTarget
    <2>. HIDE DEF Update
    <2>. QED  BY <1>1, <1>3, <2>2, <2>3, <2>7, <2>8, StoresReads
  <1>6. ASSUME NEW a \in Amounts, TextAmount(g, u, a)
        PROVE  \E plan \in Seq(Effects) : Reads(g, u, plan)
    <2>1. PICK st \in State : st = WithAmount(v, a)
      BY <1>1 DEF WithAmount, State
    <2>2. st.kind = v.kind /\ st.step = "confirm" /\ st.born = v.born
      BY <2>1 DEF WithAmount, State
    <2>3. v.step = "amount" /\ meant' = meant \cup {Wish(u, st)} /\ latest' = latest
      BY <1>1, <1>6, <2>1 DEF TextAmount
    <2>4. v # NoState
      BY <2>3, NoStateIs
    <2>5. StateOK(u, v)'
      BY <1>0, <1>2, <2>3, StateStays
    <2>6. StateOK(u, st)'
      BY <2>2, <2>3, <2>4, <2>5 DEF StateOK
    <2>7. Update(g, <<Set(u, st), Show(u, st)>>)
      BY <1>1, <1>6, <2>1 DEF TextAmount
    <2>8. Show(u, st) \in Effects /\ Show(u, st).op = "show" /\ Show(u, st).user = u
      BY <1>3, EffectsAre
    <2>. QED  BY <1>1, <2>2, <2>3, <2>6, <2>7, <2>8, StoresReads
  <1>7. ASSUME TextCancel(g, u) \/ TextLookup(g, u)
        PROVE  Update(g, <<Del(u)>>) /\ meant' = meant /\ latest' = latest
    BY <1>7 DEF TextCancel, TextLookup
  <1>. QED  BY <1>4, <1>5, <1>6, <1>7

LEMMA CallReads ==
    ASSUME Shape, StoredOK, NEW g \in Goroutines, NEW u \in Users,
           (\E a \in Amounts : TextDeposit(g, u, a)) \/ TextSettle(g, u)
    PROVE  \E plan \in Seq(Effects) : Reads(g, u, plan)
  <1>0. updates' = updates + 1 /\ 0 \in Nat
    BY DEF TextDeposit, TextSettle, Update
  <1>1. PICK v \in State : v = states[u]
    BY DEF Shape
  <1>2. StateOK(u, v) /\ "deposit" \notin AdminKinds /\ Settling \subseteq AdminKinds
    BY <1>1 DEF StoredOK, AdminKinds, Settling
  <1>3. ASSUME NEW a \in Amounts, TextDeposit(g, u, a)
        PROVE  \E plan \in Seq(Effects) : Reads(g, u, plan)
    <2>1. PICK st \in State : st = [v EXCEPT !.amount = a]
      BY <1>1 DEF State
    <2>2. st.kind = v.kind /\ st.born = v.born
      BY <2>1 DEF State
    <2>3. st.kind = "deposit" /\ meant' = meant \cup {Wish(u, st)} /\ latest' = latest
      BY <1>1, <1>3, <2>1 DEF TextDeposit
    <2>4. v # NoState
      BY <2>2, <2>3, NoStateIs
    <2>5. StateOK(u, v)'
      BY <1>0, <1>2, <2>3, StateStays
    <2>6. CallOK(u, st)'
      BY <1>2, <2>2, <2>3, <2>4, <2>5 DEF StateOK, CallOK
    <2>7. Update(g, <<Del(u), Do(u, st, 0)>>)
      BY <1>1, <1>3, <2>1 DEF TextDeposit, CarryOut
    <2>8. meant \subseteq meant' /\ st.born = states[u].born
      BY <1>1, <2>2, <2>3
    <2>. QED  BY <1>0, <2>3, <2>6, <2>7, <2>8, CallsReads
  <1>4. ASSUME TextSettle(g, u)
        PROVE  \E plan \in Seq(Effects) : Reads(g, u, plan)
    <2>1. v.kind \in Settling /\ meant' = meant /\ latest' = latest
      BY <1>1, <1>4 DEF TextSettle
    <2>2. v # NoState
      BY <1>2, <2>1, NoStateIs
    <2>3. CallOK(u, v)
      BY <1>2, <2>1, <2>2 DEF StateOK, CallOK
    <2>4. CallOK(u, v)'
      BY <1>0, <2>1, <2>3, StateStays
    <2>5. Update(g, <<Del(u), Do(u, v, 0)>>)
      BY <1>1, <1>4 DEF TextSettle, CarryOut
    <2>6. meant \subseteq meant' /\ v.born = states[u].born
      BY <1>1, <2>1
    <2>. QED  BY <1>0, <2>1, <2>4, <2>5, <2>6, CallsReads
  <1>. QED  BY <1>3, <1>4

LEMMA TapReads ==
    ASSUME Shape, StoredOK, NEW g \in Goroutines, NEW m \in DOMAIN messages,
           TapOk(g, m) \/ TapCancel(g, m)
    PROVE  \E u \in Users, plan \in Seq(Effects) : Reads(g, u, plan)
  <1>0. /\ updates' = updates + 1 /\ m \in Nat /\ meant' = meant /\ latest' = latest
        /\ meant \subseteq meant'
    <2>1. \E plan : Update(g, plan)
      <3>1. CASE TapOk(g, m)
        BY <3>1 DEF TapOk
      <3>2. CASE TapCancel(g, m)
        BY <3>2 DEF TapCancel
      <3>. QED  BY <3>1, <3>2
    <2>2. updates' = updates + 1
      BY <2>1 DEF Update
    <2>3. m \in Nat
      <3>1. messages \in Seq(Message)
        BY DEF Shape
      <3>. QED  BY <3>1
    <2>4. meant' = meant /\ latest' = latest
      <3>1. CASE TapOk(g, m)
        BY <3>1 DEF TapOk
      <3>2. CASE TapCancel(g, m)
        BY <3>2 DEF TapCancel
      <3>. QED  BY <3>1, <3>2
    <2>. QED  BY <2>2, <2>3, <2>4
  <1>1. PICK u \in Users : u = messages[m].user
    <2>1. messages[m] \in Message
      BY DEF Shape
    <2>. QED  BY <2>1 DEF Message
  <1>2. PICK v \in State : v = states[u]
    BY DEF Shape
  <1>3. StateOK(u, v)
    BY <1>2 DEF StoredOK
  <1>4. ASSUME TapOk(g, m)
        PROVE  \E plan \in Seq(Effects) : Reads(g, u, plan)
    <2>1. v.step = "confirm"
      BY <1>1, <1>2, <1>4 DEF TapOk, Confirmable
    <2>2. v # NoState
      BY <2>1, NoStateIs
    <2>3. CallOK(u, v)
      BY <1>3, <2>1, <2>2 DEF StateOK, CallOK
    <2>4. CallOK(u, v)'
      BY <1>0, <2>3, StateStays
    <2>5. Update(g, <<Del(u), Do(u, v, m), Retire(u, v, m)>>)
      BY <1>1, <1>2, <1>4 DEF TapOk, Accepted
    <2>. QED  BY <1>0, <1>2, <2>4, <2>5, CallsReads
  <1>5. ASSUME TapCancel(g, m)
        PROVE  \E plan \in Seq(Effects) : Reads(g, u, plan)
    <2>1. PICK b \in Effects : b = Retire(u, v, m) /\ b.op = "retire" /\ b.user = u
      BY <1>0, EffectsAre
    <2>2. Update(g, <<Set(u, NoState), b>>)
      BY <1>1, <1>2, <1>5, <2>1 DEF TapCancel, Del
    <2>3. StateOK(u, NoState)' /\ NoState \in State /\ NoState.born = 0
      BY <1>0, StateStays, NoStateIs
    <2>. QED  BY <1>0, <2>1, <2>2, <2>3, StoresReads
  <1>. QED  BY <1>4, <1>5

LEMMA StepKinds ==
    ASSUME Shape, StoredOK, [Next]_vars
    PROVE  StepKind
  <1>1. ASSUME NEW g \in Goroutines, NEW u \in Users,
               \/ \E kind \in Offered : Begin(g, u, kind)
               \/ \E kind \in Offered, r \in Requests : Choose(g, u, kind, r)
        PROVE  StepKind
    BY <1>1, BeginReads DEF StepKind
  <1>2. ASSUME NEW g \in Goroutines, NEW u \in Users,
               \/ TextCancel(g, u)
               \/ \E x \in Users \cup Addresses : TextTarget(g, u, x)
               \/ \E a \in Amounts : TextAmount(g, u, a)
               \/ TextLookup(g, u)
        PROVE  StepKind
    BY <1>2, TextReads DEF StepKind
  <1>3. ASSUME NEW g \in Goroutines, NEW u \in Users,
               (\E a \in Amounts : TextDeposit(g, u, a)) \/ TextSettle(g, u)
        PROVE  StepKind
    BY <1>3, CallReads DEF StepKind
  <1>4. ASSUME NEW g \in Goroutines, NEW m \in DOMAIN messages, TapOk(g, m) \/ TapCancel(g, m)
        PROVE  StepKind
    BY <1>4, TapReads DEF StepKind
  <1>5. ASSUME \/ \E g \in Goroutines : Effect(g)
               \/ Restart \/ UNCHANGED vars
        PROVE  StepKind
    BY <1>5 DEF StepKind
  <1>. QED  BY <1>1, <1>2, <1>3, <1>4, <1>5 DEF Next

-----------------------------------------------------------------------------
(* What a step leaves alone.                                               *)

LEMMA AtWorkHas ==
    ASSUME Shape, NEW u \in Users
    PROVE  /\ \A g \in Goroutines : \A i \in DOMAIN run[g] :
                 run[g][i].user = u => run[g][i].st.born \in AtWork(u)
           /\ AtWork(u) \subseteq 0..MaxUpdates
  <1>1. \A g \in Goroutines : \A i \in DOMAIN run[g] :
           run[g][i].user = u => run[g][i].st.born \in AtWork(u)
    BY DEF AtWork
  <1>2. ASSUME NEW g \in Goroutines, NEW i \in DOMAIN run[g]
        PROVE  run[g][i].st.born \in 0..MaxUpdates
    <2>1. run[g][i] \in Effects
      BY DEF Shape
    <2>2. run[g][i].st \in State
      BY <2>1, EffectFields
    <2>. QED  BY <2>2 DEF State
  <1>3. AtWork(u) \subseteq 0..MaxUpdates
    BY <1>2 DEF AtWork
  <1>. QED  BY <1>1, <1>3

LEMMA ReadsFacts ==
    ASSUME Shape, NEW g \in Goroutines, NEW u \in Users, NEW plan \in Seq(Effects),
           Reads(g, u, plan)
    PROVE  /\ run[g] = << >> /\ run'[g] = plan
           /\ \A h \in Goroutines : h # g => run'[h] = run[h]
           /\ run' \in [Goroutines -> Seq(Effects)]
           /\ updates' = updates + 1 /\ updates' \in 0..MaxUpdates /\ updates \in Nat
           /\ UNCHANGED <<states, messages, done, restarts>>
           /\ crossed \subseteq crossed' /\ crossed' \subseteq 0..MaxUpdates
           /\ AtWork(u) # {} => AtWork(u) \subseteq crossed' /\ states[u].born \in crossed'
  <1>1. run \in [Goroutines -> Seq(Effects)] /\ run[g] = << >> /\ run' = [run EXCEPT ![g] = plan]
    BY DEF Shape, Reads, Update, Idle
  <1>2. updates \in Nat /\ MaxUpdates \in Nat
    BY ConversationAssumption DEF Shape
  <1>3. updates' = updates + 1 /\ updates' \in 0..MaxUpdates
    BY <1>2 DEF Reads, Update
  <1>4. UNCHANGED <<states, messages, done, restarts>>
    BY DEF Reads, Update
  <1>5. crossed' = IF AtWork(u) = {} THEN crossed
                   ELSE crossed \cup AtWork(u) \cup {states[u].born}
    BY DEF Reads, Update
  <1>6. states[u].born \in 0..MaxUpdates
    <2>1. states[u] \in State
      BY DEF Shape
    <2>. QED  BY <2>1 DEF State
  <1>7. AtWork(u) \subseteq 0..MaxUpdates /\ crossed \subseteq 0..MaxUpdates
    BY AtWorkHas DEF Shape
  <1>8. /\ crossed \subseteq crossed' /\ crossed' \subseteq 0..MaxUpdates
        /\ AtWork(u) # {} => AtWork(u) \subseteq crossed' /\ states[u].born \in crossed'
    BY <1>5, <1>6, <1>7
  <1>. QED  BY <1>1, <1>2, <1>3, <1>4, <1>8

LEMMA EffectFacts ==
    ASSUME Shape, NEW g \in Goroutines, Effect(g)
    PROVE  LET e == run[g][1] IN
           /\ 1 \in DOMAIN run[g] /\ e \in Effects
           /\ run' \in [Goroutines -> Seq(Effects)]
           /\ \A i \in DOMAIN run'[g] : i + 1 \in DOMAIN run[g] /\ run'[g][i] = run[g][i + 1]
           /\ \A i \in DOMAIN run[g] : i # 1 => i - 1 \in DOMAIN run'[g]
           /\ \A h \in Goroutines : h # g => run'[h] = run[h]
           /\ states' = IF e.op = "set" THEN [states EXCEPT ![e.user] = e.st] ELSE states
           /\ \/ done' = done
              \/ e.op = "do" /\ done' = Append(done, [user |-> e.user, st |-> e.st, by |-> e.message])
           /\ messages' \in Seq(Message)
           /\ UNCHANGED <<meant, latest, crossed, updates, restarts>>
  <1>. DEFINE e == run[g][1]
  <1>1. /\ run \in [Goroutines -> Seq(Effects)] /\ run[g] \in Seq(Effects) /\ run[g] # << >>
        /\ messages \in Seq(Message)
    BY DEF Shape, Effect, Idle
  <1>2. 1 \in DOMAIN run[g] /\ e \in Effects /\ Head(run[g]) = e
    BY <1>1
  <1>3. run' = [run EXCEPT ![g] = Tail(run[g])] /\ Tail(run[g]) \in Seq(Effects)
    BY <1>1 DEF Effect
  <1>4. /\ run' \in [Goroutines -> Seq(Effects)] /\ run'[g] = Tail(run[g])
        /\ \A h \in Goroutines : h # g => run'[h] = run[h]
    BY <1>1, <1>3
  <1>5. \A i \in DOMAIN Tail(run[g]) : i + 1 \in DOMAIN run[g] /\ Tail(run[g])[i] = run[g][i + 1]
    BY <1>1
  <1>6. \A i \in DOMAIN run[g] : i # 1 => i - 1 \in DOMAIN Tail(run[g])
    BY <1>1
  <1>7. SetState(g, e) \/ SendConfirm(g, e) \/ CallService(g, e) \/ EditMessage(g, e)
    BY <1>2 DEF Effect
  <1>8. UNCHANGED <<meant, latest, crossed, updates, restarts>>
    BY DEF Effect
  <1>9. e.user \in Users /\ e.st \in State
    BY <1>2, EffectFields
  <1>. HIDE DEF e
  <1>10. states' = IF e.op = "set" THEN [states EXCEPT ![e.user] = e.st] ELSE states
    BY <1>7 DEF SetState, SendConfirm, CallService, EditMessage
  <1>11. \/ done' = done
         \/ e.op = "do" /\ done' = Append(done, [user |-> e.user, st |-> e.st, by |-> e.message])
    BY <1>7 DEF SetState, SendConfirm, CallService, EditMessage
  <1>12. messages' \in Seq(Message)
    <2>1. CASE messages' = messages
      BY <1>1, <2>1
    <2>2. CASE messages' = Append(messages, [user |-> e.user, st |-> e.st, buttons |-> TRUE])
      <3>1. [user |-> e.user, st |-> e.st, buttons |-> TRUE] \in Message
        BY <1>9 DEF Message
      <3>. QED  BY <1>1, <2>2, <3>1
    <2>3. CASE messages' = [messages EXCEPT ![e.message].buttons = FALSE]
      <3>1. CASE e.message \in DOMAIN messages
        <4>1. PICK r \in Message : r = [messages[e.message] EXCEPT !.buttons = FALSE]
          <5>1. messages[e.message] \in Message
            BY <1>1, <3>1
          <5>. QED  BY <5>1 DEF Message
        <4>2. messages' = [messages EXCEPT ![e.message] = r]
          BY <2>3, <4>1
        <4>. QED  BY <1>1, <3>1, <4>2
      <3>2. CASE e.message \notin DOMAIN messages
        <4>1. messages' = messages
          BY <1>1, <2>3, <3>2
        <4>. QED  BY <1>1, <4>1
      <3>. QED  BY <3>1, <3>2
    <2>. QED  BY <1>7, <2>1, <2>2, <2>3 DEF SetState, SendConfirm, CallService, EditMessage
  <1>13. /\ \A i \in DOMAIN run'[g] : i + 1 \in DOMAIN run[g] /\ run'[g][i] = run[g][i + 1]
         /\ \A i \in DOMAIN run[g] : i # 1 => i - 1 \in DOMAIN run'[g]
    BY <1>4, <1>5, <1>6
  <1>. QED  BY <1>2, <1>4, <1>8, <1>10, <1>11, <1>12, <1>13 DEF e

LEMMA RestartFacts ==
    ASSUME Shape, Restart
    PROVE  /\ \A u \in Users : states'[u] = NoState
           /\ \A g \in Goroutines : run'[g] = << >> /\ DOMAIN run'[g] = {}
           /\ states' \in [Users -> State] /\ run' \in [Goroutines -> Seq(Effects)]
           /\ restarts' \in 0..MaxRestarts
           /\ UNCHANGED <<messages, done, meant, latest, crossed, updates>>
  <1>1. /\ states' = [u \in Users |-> NoState] /\ run' = [g \in Goroutines |-> << >>]
        /\ UNCHANGED <<messages, done, meant, latest, crossed, updates>>
    BY DEF Restart, Idle
  <1>2. << >> \in Seq(Effects) /\ DOMAIN << >> = {}
    OBVIOUS
  <1>3. restarts' \in 0..MaxRestarts
    BY ConversationAssumption DEF Shape, Restart
  <1>. QED  BY <1>1, <1>2, <1>3, NoStateIs

-----------------------------------------------------------------------------
(* The parts of the invariant, over the kinds of step.                     *)

LEMMA ShapeStep ==
    ASSUME Shape, StepKind
    PROVE  Shape'
  <1>0. /\ states \in [Users -> State] /\ messages \in Seq(Message) /\ done \in Seq(ServiceCall)
        /\ latest \in [Users -> 0..MaxUpdates] /\ crossed \subseteq 0..MaxUpdates
        /\ updates \in 0..MaxUpdates /\ restarts \in 0..MaxRestarts
    BY DEF Shape
  <1>1. ASSUME NEW g \in Goroutines, NEW u \in Users, NEW plan \in Seq(Effects), Reads(g, u, plan)
        PROVE  Shape'
    <2>1. /\ run' \in [Goroutines -> Seq(Effects)]
          /\ updates' = updates + 1 /\ updates' \in 0..MaxUpdates
          /\ UNCHANGED <<states, messages, done, restarts>>
          /\ crossed' \subseteq 0..MaxUpdates
      BY <1>1, ReadsFacts
    <2>2. latest' \in [Users -> 0..MaxUpdates]
      <3>1. latest' = latest \/ latest' = [latest EXCEPT ![u] = updates']
        BY <1>1, <2>1 DEF Reads
      <3>. QED  BY <1>0, <2>1, <3>1
    <2>. QED  BY <1>0, <2>1, <2>2 DEF Shape
  <1>2. ASSUME NEW g \in Goroutines, Effect(g)  PROVE Shape'
    <2>. DEFINE e == run[g][1]
    <2>1. /\ e \in Effects /\ run' \in [Goroutines -> Seq(Effects)]
          /\ states' = IF e.op = "set" THEN [states EXCEPT ![e.user] = e.st] ELSE states
          /\ \/ done' = done
             \/ e.op = "do" /\ done' = Append(done, [user |-> e.user, st |-> e.st, by |-> e.message])
          /\ messages' \in Seq(Message)
          /\ UNCHANGED <<latest, crossed, updates, restarts>>
      BY <1>2, EffectFacts
    <2>2. e.user \in Users /\ e.st \in State /\ (e.op = "do" => e.message \in Nat)
      BY <2>1, EffectFields
    <2>. HIDE DEF e
    <2>3. states' \in [Users -> State]
      BY <1>0, <2>1, <2>2
    <2>4. done' \in Seq(ServiceCall)
      <3>1. CASE done' = done
        BY <1>0, <3>1
      <3>2. CASE e.op = "do" /\ done' = Append(done, [user |-> e.user, st |-> e.st, by |-> e.message])
        <4>1. [user |-> e.user, st |-> e.st, by |-> e.message] \in ServiceCall
          BY <2>2, <3>2 DEF ServiceCall
        <4>. QED  BY <1>0, <3>2, <4>1
      <3>. QED  BY <2>1, <3>1, <3>2
    <2>. QED  BY <1>0, <2>1, <2>3, <2>4 DEF Shape
  <1>3. ASSUME Restart  PROVE Shape'
    BY <1>0, <1>3, RestartFacts DEF Shape
  <1>4. ASSUME UNCHANGED vars  PROVE Shape'
    BY <1>4 DEF Shape, vars
  <1>. QED  BY <1>1, <1>2, <1>3, <1>4 DEF StepKind

(* Nothing a user meant is forgotten.                                      *)
LEMMA HistoryGrows ==
    ASSUME Shape, StepKind
    PROVE  /\ meant \subseteq meant' /\ crossed \subseteq crossed'
           /\ updates' = updates \/ updates' = updates + 1
  <1>1. ASSUME NEW g \in Goroutines, NEW u \in Users, NEW plan \in Seq(Effects), Reads(g, u, plan)
        PROVE  meant \subseteq meant' /\ crossed \subseteq crossed' /\ updates' = updates + 1
    <2>1. meant \subseteq meant'
      BY <1>1 DEF Reads
    <2>. QED  BY <1>1, <2>1, ReadsFacts
  <1>2. ASSUME NEW g \in Goroutines, Effect(g)  PROVE UNCHANGED <<meant, crossed, updates>>
    BY <1>2, EffectFacts
  <1>3. ASSUME Restart \/ UNCHANGED vars  PROVE UNCHANGED <<meant, crossed, updates>>
    BY <1>3 DEF Restart, vars
  <1>. QED  BY <1>1, <1>2, <1>3 DEF StepKind

LEMMA StoredStep ==
    ASSUME Shape, StoredOK, PlannedOK, StepKind, Shape'
    PROVE  StoredOK'
  <1>1. SUFFICES ASSUME NEW u \in Users, NEW v \in State, v = states'[u]
                 PROVE  StateOK(u, v)'
    <2>1. \A u \in Users : states'[u] \in State
      BY DEF Shape
    <2>. QED  BY <2>1 DEF StoredOK, StateOK, Wish
  <1>2. /\ StateOK(u, v) => StateOK(u, v)'
        /\ StateOK(u, NoState)'
    BY HistoryGrows, StateStays
  <1>3. ASSUME states'[u] = states[u]  PROVE StateOK(u, v)'
    BY <1>1, <1>2, <1>3 DEF StoredOK
  <1>4. ASSUME NEW g \in Goroutines, Effect(g)  PROVE StateOK(u, v)'
    <2>. DEFINE e == run[g][1]
    <2>1. /\ 1 \in DOMAIN run[g] /\ e \in Effects
          /\ states' = IF e.op = "set" THEN [states EXCEPT ![e.user] = e.st] ELSE states
      BY <1>4, EffectFacts
    <2>2. e.op = "set" => StateOK(e.user, e.st)
      BY <2>1 DEF PlannedOK
    <2>3. states \in [Users -> State]
      BY DEF Shape
    <2>. HIDE DEF e
    <2>4. states'[u] = states[u] \/ (e.op = "set" /\ e.user = u /\ states'[u] = e.st)
      BY <2>1, <2>3
    <2>5. ASSUME e.op = "set", e.user = u, states'[u] = e.st  PROVE StateOK(u, v)'
      BY <1>1, <1>2, <2>2, <2>5
    <2>. QED  BY <1>3, <2>4, <2>5
  <1>5. ASSUME Restart  PROVE StateOK(u, v)'
    BY <1>1, <1>2, <1>5, RestartFacts
  <1>6. ASSUME NEW g \in Goroutines, NEW x \in Users, NEW plan \in Seq(Effects), Reads(g, x, plan)
        PROVE  StateOK(u, v)'
    BY <1>3, <1>6, ReadsFacts
  <1>7. ASSUME UNCHANGED vars  PROVE StateOK(u, v)'
    BY <1>3, <1>7 DEF vars
  <1>. QED  BY <1>4, <1>5, <1>6, <1>7 DEF StepKind

(* Where an effect that is planned after a step comes from.                *)
LEMMA PlanSource ==
    ASSUME Shape, StepKind, NEW h \in Goroutines, NEW i \in DOMAIN run'[h]
    PROVE  \/ \E j \in DOMAIN run[h] : run'[h][i] = run[h][j]
           \/ \E u \in Users, plan \in Seq(Effects) :
                 Reads(h, u, plan) /\ i \in DOMAIN plan /\ run'[h][i] = plan[i]
  <1>1. ASSUME NEW g \in Goroutines, NEW u \in Users, NEW plan \in Seq(Effects), Reads(g, u, plan)
        PROVE  \/ \E j \in DOMAIN run[h] : run'[h][i] = run[h][j]
               \/ Reads(h, u, plan) /\ i \in DOMAIN plan /\ run'[h][i] = plan[i]
    <2>1. CASE h = g
      BY <1>1, <2>1, ReadsFacts
    <2>2. CASE h # g
      BY <1>1, <2>2, ReadsFacts
    <2>. QED  BY <2>1, <2>2
  <1>2. ASSUME NEW g \in Goroutines, Effect(g)
        PROVE  \E j \in DOMAIN run[h] : run'[h][i] = run[h][j]
    <2>1. CASE h = g
      BY <1>2, <2>1, EffectFacts
    <2>2. CASE h # g
      BY <1>2, <2>2, EffectFacts
    <2>. QED  BY <2>1, <2>2
  <1>3. ASSUME Restart  PROVE FALSE
    BY <1>3, RestartFacts
  <1>4. ASSUME UNCHANGED vars  PROVE \E j \in DOMAIN run[h] : run'[h][i] = run[h][j]
    BY <1>4 DEF vars
  <1>. QED  BY <1>1, <1>2, <1>3, <1>4 DEF StepKind

LEMMA PlannedStep ==
    ASSUME Shape, PlannedOK, StepKind, Shape'
    PROVE  PlannedOK'
  <1>1. ASSUME NEW h \in Goroutines  PROVE PlanOK(run'[h])
    <2>1. ASSUME run'[h] = run[h]  PROVE PlanOK(run'[h])
      BY <2>1 DEF PlannedOK
    <2>2. ASSUME NEW g \in Goroutines, NEW u \in Users, NEW plan \in Seq(Effects),
                 Reads(g, u, plan)
          PROVE  PlanOK(run'[h])
      <3>1. CASE h = g
        <4>1. PlanOK(plan)
          BY <2>2 DEF Reads
        <4>. QED  BY <2>2, <3>1, <4>1, ReadsFacts
      <3>2. CASE h # g
        BY <2>1, <2>2, <3>2, ReadsFacts
      <3>. QED  BY <3>1, <3>2
    <2>3. ASSUME NEW g \in Goroutines, Effect(g)  PROVE PlanOK(run'[h])
      <3>1. CASE h = g
        <4>. DEFINE r == run[g]
                    s == run'[g]
        <4>1. /\ r \in Seq(Effects) /\ s \in Seq(Effects)
              /\ \A i \in DOMAIN s : i + 1 \in DOMAIN r /\ s[i] = r[i + 1]
          BY <2>3, EffectFacts DEF Shape
        <4>2. \A i \in DOMAIN r : r[i].op = "do" =>
                 /\ i = 1 \/ i = 2
                 /\ \A j \in DOMAIN r : j > i => r[j].op = "retire"
          BY DEF PlannedOK, PlanOK
        <4>3. \A i \in DOMAIN s : i \in Nat /\ i >= 1
          BY <4>1
        <4>. HIDE DEF r, s
        <4>4. ASSUME NEW i \in DOMAIN s, s[i].op = "do"
              PROVE  i = 1 /\ \A j \in DOMAIN s : j > i => s[j].op = "retire"
          <5>1. i + 1 \in DOMAIN r /\ r[i + 1].op = "do"
            BY <4>1, <4>4
          <5>2. i = 1
            BY <4>2, <4>3, <5>1
          <5>3. ASSUME NEW j \in DOMAIN s, j > i  PROVE s[j].op = "retire"
            <6>1. j + 1 \in DOMAIN r /\ j + 1 > i + 1 /\ s[j] = r[j + 1]
              BY <4>1, <4>3, <5>3
            <6>. QED  BY <4>2, <5>1, <6>1
          <5>. QED  BY <5>2, <5>3
        <4>5. PlanOK(s)
          BY <4>4 DEF PlanOK
        <4>. QED  BY <3>1, <4>5 DEF s
      <3>2. CASE h # g
        BY <2>1, <2>3, <3>2, EffectFacts
      <3>. QED  BY <3>1, <3>2
    <2>4. ASSUME Restart  PROVE PlanOK(run'[h])
      BY <2>4, RestartFacts DEF PlanOK
    <2>5. ASSUME UNCHANGED vars  PROVE PlanOK(run'[h])
      BY <2>1, <2>5 DEF vars
    <2>. QED  BY <2>2, <2>3, <2>4, <2>5 DEF StepKind
  <1>2. ASSUME NEW h \in Goroutines, NEW i \in DOMAIN run'[h], NEW e \in Effects, e = run'[h][i]
        PROVE  /\ e.op = "set" => StateOK(e.user, e.st)'
               /\ e.op = "do" => CallOK(e.user, e.st)'
    <2>0. e.user \in Users /\ e.st \in State
      BY EffectFields
    <2>1. ASSUME NEW j \in DOMAIN run[h], e = run[h][j]
          PROVE  /\ e.op = "set" => StateOK(e.user, e.st)'
                 /\ e.op = "do" => CallOK(e.user, e.st)'
      <3>1. /\ e.op = "set" => StateOK(e.user, e.st)
            /\ e.op = "do" => CallOK(e.user, e.st)
        BY <2>1 DEF PlannedOK
      <3>2. /\ StateOK(e.user, e.st) => StateOK(e.user, e.st)'
            /\ CallOK(e.user, e.st) => CallOK(e.user, e.st)'
        BY <2>0, HistoryGrows, StateStays
      <3>. QED  BY <3>1, <3>2
    <2>2. ASSUME NEW u \in Users, NEW plan \in Seq(Effects), Reads(h, u, plan),
                 i \in DOMAIN plan, e = plan[i]
          PROVE  /\ e.op = "set" => StateOK(e.user, e.st)'
                 /\ e.op = "do" => CallOK(e.user, e.st)'
      BY <2>2 DEF Reads, Planned
    <2>. QED  BY <1>2, <2>1, <2>2, PlanSource
  <1>3. \A h \in Goroutines : \A i \in DOMAIN run'[h] : run'[h][i] \in Effects
    BY DEF Shape
  <1>4. ASSUME NEW h \in Goroutines, NEW i \in DOMAIN run'[h]
        PROVE  /\ run'[h][i].op = "set" => StateOK(run[h][i].user, run[h][i].st)'
               /\ run'[h][i].op = "do" => CallOK(run[h][i].user, run[h][i].st)'
    BY <1>2, <1>3 DEF StateOK, CallOK, Wish
  <1>5. \A h \in Goroutines : PlanOK(run[h])'
    BY <1>1 DEF PlanOK, Del, Set
  <1>. QED  BY <1>4, <1>5 DEF PlannedOK

LEMMA DoneStep ==
    ASSUME Shape, PlannedOK, DoneOK, StepKind, Shape'
    PROVE  DoneOK'
  <1>0. done \in Seq(ServiceCall)
    BY DEF Shape
  <1>1. SUFFICES ASSUME NEW n \in DOMAIN done', NEW c \in ServiceCall, c = done'[n]
                 PROVE  CallOK(c.user, c.st)'
    <2>1. \A n \in DOMAIN done' : done'[n] \in ServiceCall
      BY DEF Shape
    <2>. QED  BY <2>1 DEF DoneOK, CallOK, Wish
  <1>2. c.user \in Users /\ c.st \in State
    BY DEF ServiceCall
  <1>3. CallOK(c.user, c.st) => CallOK(c.user, c.st)'
    BY <1>2, HistoryGrows, StateStays
  <1>4. ASSUME done' = done  PROVE CallOK(c.user, c.st)'
    BY <1>1, <1>3, <1>4 DEF DoneOK
  <1>5. ASSUME NEW g \in Goroutines, Effect(g)  PROVE CallOK(c.user, c.st)'
    <2>. DEFINE e == run[g][1]
                d == [user |-> e.user, st |-> e.st, by |-> e.message]
    <2>1. /\ 1 \in DOMAIN run[g] /\ e \in Effects
          /\ done' = done \/ (e.op = "do" /\ done' = Append(done, d))
      BY <1>5, EffectFacts
    <2>2. e.op = "do" => CallOK(e.user, e.st)
      BY <2>1 DEF PlannedOK
    <2>3. d.user = e.user /\ d.st = e.st
      OBVIOUS
    <2>. HIDE DEF d, e
    <2>4. CASE e.op = "do" /\ done' = Append(done, d)
      <3>1. \/ n \in DOMAIN done /\ done'[n] = done[n]
            \/ done'[n] = d
        BY <1>0, <1>1, <2>4
      <3>2. CASE n \in DOMAIN done /\ done'[n] = done[n]
        BY <1>1, <1>3, <3>2 DEF DoneOK
      <3>3. CASE done'[n] = d
        BY <1>1, <1>3, <2>2, <2>3, <2>4, <3>3
      <3>. QED  BY <3>1, <3>2, <3>3
    <2>. QED  BY <1>4, <2>1, <2>4
  <1>6. ASSUME NEW g \in Goroutines, NEW u \in Users, NEW plan \in Seq(Effects), Reads(g, u, plan)
        PROVE  done' = done
    BY <1>6, ReadsFacts
  <1>7. ASSUME Restart \/ UNCHANGED vars  PROVE done' = done
    BY <1>7 DEF Restart, vars
  <1>. QED  BY <1>4, <1>5, <1>6, <1>7 DEF StepKind

(* A conversation nobody crossed is carried out once.                      *)
LEMMA OnceStep ==
    ASSUME Shape, PlannedOK, DoneOK, OnceOK, StepKind
    PROVE  OnceOK'
  <1>. DEFINE Mine(c, u, b) == c.user = u /\ c.st.born = b
              N1(u, b) == \A m, n \in DOMAIN done' :
                             Mine(done'[m], u, b) /\ Mine(done'[n], u, b) => m = n
              N2(u, b) == \A n \in DOMAIN done' : Mine(done'[n], u, b) =>
                             /\ states'[u].born # b
                             /\ \A g \in Goroutines : \A i \in DOMAIN run'[g] :
                                   run'[g][i].user = u /\ run'[g][i].op \in {"set", "do"} =>
                                      run'[g][i].st.born # b
              N3(u, b) == \A g \in Goroutines : \A i \in DOMAIN run'[g] :
                             run'[g][i].op = "do" /\ Mine(run'[g][i], u, b) =>
                                /\ \A h \in Goroutines : \A j \in DOMAIN run'[h] :
                                      run'[h][j].user = u => h = g
                                /\ i = 1 => states'[u].born # b
  <1>0. /\ done \in Seq(ServiceCall) /\ updates \in Nat /\ MaxUpdates \in Nat
        /\ states \in [Users -> State]
        /\ \A g \in Goroutines : run[g] \in Seq(Effects)
    BY ConversationAssumption DEF Shape
  <1>1. SUFFICES ASSUME NEW u \in Users, NEW b \in Nat \ crossed'
                 PROVE  N1(u, b) /\ N2(u, b) /\ N3(u, b)
    BY DEF OnceOK
  <1>2. b \in Nat \ crossed
    BY HistoryGrows
  <1>3. /\ \A m, n \in DOMAIN done : Mine(done[m], u, b) /\ Mine(done[n], u, b) => m = n
        /\ \A n \in DOMAIN done : Mine(done[n], u, b) =>
              /\ states[u].born # b
              /\ \A g \in Goroutines : \A i \in DOMAIN run[g] :
                    run[g][i].user = u /\ run[g][i].op \in {"set", "do"} => run[g][i].st.born # b
        /\ \A g \in Goroutines : \A i \in DOMAIN run[g] :
              run[g][i].op = "do" /\ Mine(run[g][i], u, b) =>
                 /\ \A h \in Goroutines : \A j \in DOMAIN run[h] : run[h][j].user = u => h = g
                 /\ i = 1 => states[u].born # b
    BY <1>2 DEF OnceOK
  <1>4. ASSUME NEW n \in DOMAIN done, Mine(done[n], u, b)  PROVE b # 0 /\ b # updates + 1
    <2>1. b \in 1..updates
      BY <1>4 DEF DoneOK, CallOK
    <2>. QED  BY <1>0, <2>1
  <1>5. ASSUME NEW g \in Goroutines, NEW x \in Users, NEW plan \in Seq(Effects), Reads(g, x, plan)
        PROVE  N1(u, b) /\ N2(u, b) /\ N3(u, b)
    <2>1. /\ run[g] = << >> /\ DOMAIN run[g] = {} /\ run'[g] = plan
          /\ \A h \in Goroutines : h # g => run'[h] = run[h]
          /\ states' = states /\ done' = done
          /\ AtWork(x) # {} => AtWork(x) \subseteq crossed' /\ states[x].born \in crossed'
      BY <1>5, ReadsFacts
    <2>2. /\ \A i \in DOMAIN plan :
                /\ plan[i].user = x
                /\ plan[i].op = "set" =>
                      plan[i].st.born \in {0, states[x].born, updates + 1}
                /\ plan[i].op = "do" => plan[i].st.born = states[x].born
          /\ plan[1].op = "set"
      BY <1>5 DEF Reads, Planned
    <2>3. N1(u, b)
      BY <1>3, <2>1
    <2>4. N2(u, b)
      <3>1. SUFFICES ASSUME NEW n \in DOMAIN done, Mine(done[n], u, b)
                     PROVE  /\ states[u].born # b
                            /\ \A h \in Goroutines : \A i \in DOMAIN run'[h] :
                                  run'[h][i].user = u /\ run'[h][i].op \in {"set", "do"} =>
                                     run'[h][i].st.born # b
        BY <2>1
      <3>2. states[u].born # b /\ b # 0 /\ b # updates + 1
        BY <1>3, <1>4, <3>1
      <3>3. ASSUME NEW h \in Goroutines, NEW i \in DOMAIN run'[h],
                   run'[h][i].user = u, run'[h][i].op \in {"set", "do"}
            PROVE  run'[h][i].st.born # b
        <4>1. CASE h = g
          BY <2>1, <2>2, <3>2, <3>3, <4>1
        <4>2. CASE h # g
          BY <1>3, <2>1, <3>1, <3>3, <4>2
        <4>. QED  BY <4>1, <4>2
      <3>. QED  BY <3>2, <3>3
    <2>5. ASSUME x = u, AtWork(u) = {}
          PROVE  \A h \in Goroutines : \A j \in DOMAIN run[h] : run[h][j].user # u
      BY <2>5, AtWorkHas
    <2>6. ASSUME NEW h \in Goroutines, NEW i \in DOMAIN run'[h],
                 run'[h][i].op = "do", Mine(run'[h][i], u, b)
          PROVE  /\ \A k \in Goroutines : \A j \in DOMAIN run'[k] : run'[k][j].user = u => k = h
                 /\ i = 1 => states'[u].born # b
      <3>1. CASE h = g
        <4>1. x = u /\ b = states[u].born /\ i # 1
          BY <2>1, <2>2, <2>6, <3>1
        <4>2. AtWork(u) = {}
          BY <2>1, <4>1
        <4>3. \A k \in Goroutines : \A j \in DOMAIN run'[k] : run'[k][j].user = u => k = h
          BY <2>1, <2>5, <3>1, <4>1, <4>2
        <4>. QED  BY <4>1, <4>3
      <3>2. CASE h # g
        <4>1. i \in DOMAIN run[h] /\ run[h][i].op = "do" /\ Mine(run[h][i], u, b)
          BY <2>1, <2>6, <3>2
        <4>2. x # u
          <5>1. b \in AtWork(u)
            BY <4>1, AtWorkHas
          <5>. QED  BY <2>1, <5>1
        <4>3. \A k \in Goroutines : \A j \in DOMAIN run'[k] : run'[k][j].user = u => k = h
          BY <1>3, <2>1, <2>2, <4>1, <4>2
        <4>. QED  BY <1>3, <2>1, <4>1, <4>3
      <3>. QED  BY <3>1, <3>2
    <2>. QED  BY <2>3, <2>4, <2>6
  <1>6. ASSUME NEW g \in Goroutines, Effect(g)
        PROVE  N1(u, b) /\ N2(u, b) /\ N3(u, b)
    <2>. DEFINE e == run[g][1]
                d == [user |-> e.user, st |-> e.st, by |-> e.message]
    <2>1. /\ 1 \in DOMAIN run[g] /\ e \in Effects
          /\ \A i \in DOMAIN run'[g] : i + 1 \in DOMAIN run[g] /\ run'[g][i] = run[g][i + 1]
          /\ \A h \in Goroutines : h # g => run'[h] = run[h]
          /\ run' \in [Goroutines -> Seq(Effects)]
          /\ states' = IF e.op = "set" THEN [states EXCEPT ![e.user] = e.st] ELSE states
          /\ done' = done \/ (e.op = "do" /\ done' = Append(done, d))
      BY <1>6, EffectFacts
    <2>2. d.user = e.user /\ d.st = e.st
      OBVIOUS
    <2>3. /\ PlanOK(run[g])
          /\ e.op = "do" => \A j \in DOMAIN run[g] : j > 1 => run[g][j].op = "retire"
      BY <2>1 DEF PlannedOK, PlanOK
    <2>4. \A i \in DOMAIN run'[g] : i \in Nat /\ i >= 1
      BY <2>1
    <2>5. states'[u] = IF e.op = "set" /\ e.user = u THEN e.st ELSE states[u]
      BY <1>0, <2>1
    <2>6. \A h \in Goroutines : \A i \in DOMAIN run'[h] :
             \E j \in DOMAIN run[h] : run'[h][i] = run[h][j] /\ (h = g => j = i + 1)
      BY <2>1
    <2>6a. e.op = "do" => d \in ServiceCall
      BY <2>1, EffectFields DEF ServiceCall
    <2>8. Mine(d, u, b) <=> Mine(e, u, b)
      BY <2>2
    <2>. HIDE DEF d, e
    <2>7. \/ done' = done
          \/ /\ e.op = "do" /\ DOMAIN done' = DOMAIN done \cup {Len(done) + 1}
             /\ \A n \in DOMAIN done : done'[n] = done[n]
             /\ done'[Len(done) + 1] = d
      <3>1. ASSUME e.op = "do", done' = Append(done, d)
            PROVE  /\ DOMAIN done' = DOMAIN done \cup {Len(done) + 1}
                   /\ \A n \in DOMAIN done : done'[n] = done[n]
                   /\ done'[Len(done) + 1] = d
        <4>1. /\ Len(done') = Len(done) + 1 /\ done' \in Seq(ServiceCall)
              /\ \A n \in 1..Len(done) : done'[n] = done[n]
              /\ done'[Len(done) + 1] = d
          BY <1>0, <2>6a, <3>1, AppendProperties
        <4>2. DOMAIN done' = 1..(Len(done) + 1) /\ DOMAIN done = 1..Len(done) /\ Len(done) \in Nat
          BY <1>0, <4>1
        <4>. QED  BY <4>1, <4>2
      <3>. QED  BY <2>1, <3>1
    <2>. USE DEF e
    <2>9. N1(u, b)
      <3>1. CASE done' = done
        BY <1>3, <3>1
      <3>2. CASE /\ e.op = "do" /\ DOMAIN done' = DOMAIN done \cup {Len(done) + 1}
                 /\ \A n \in DOMAIN done : done'[n] = done[n]
                 /\ done'[Len(done) + 1] = d
        <4>1. Mine(e, u, b) => \A n \in DOMAIN done : ~Mine(done[n], u, b)
          BY <1>3, <2>1, <3>2
        <4>. QED  BY <1>3, <2>8, <3>2, <4>1
      <3>. QED  BY <2>7, <3>1, <3>2
    <2>10. N2(u, b)
      <3>1. SUFFICES ASSUME NEW n \in DOMAIN done', Mine(done'[n], u, b)
                     PROVE  /\ states'[u].born # b
                            /\ \A h \in Goroutines : \A i \in DOMAIN run'[h] :
                                  run'[h][i].user = u /\ run'[h][i].op \in {"set", "do"} =>
                                     run'[h][i].st.born # b
        OBVIOUS
      <3>2. CASE n \in DOMAIN done /\ done'[n] = done[n]
        <4>1. /\ states[u].born # b
              /\ \A h \in Goroutines : \A i \in DOMAIN run[h] :
                    run[h][i].user = u /\ run[h][i].op \in {"set", "do"} => run[h][i].st.born # b
          BY <1>3, <3>1, <3>2
        <4>2. states'[u].born # b
          BY <2>1, <2>5, <4>1
        <4>3. \A h \in Goroutines : \A i \in DOMAIN run'[h] :
                 run'[h][i].user = u /\ run'[h][i].op \in {"set", "do"} => run'[h][i].st.born # b
          BY <2>6, <4>1
        <4>. QED  BY <4>2, <4>3
      <3>3. CASE e.op = "do" /\ done'[n] = d
        <4>1. Mine(e, u, b)
          BY <2>8, <3>1, <3>3
        <4>2. /\ \A h \in Goroutines : \A j \in DOMAIN run[h] : run[h][j].user = u => h = g
              /\ states[u].born # b
          BY <1>3, <2>1, <3>3, <4>1
        <4>3. states'[u].born # b
          BY <2>5, <3>3, <4>2
        <4>4. ASSUME NEW h \in Goroutines, NEW i \in DOMAIN run'[h],
                     run'[h][i].user = u, run'[h][i].op \in {"set", "do"}
              PROVE  FALSE
          <5>1. PICK j \in DOMAIN run[h] : run'[h][i] = run[h][j] /\ (h = g => j = i + 1)
            BY <2>6
          <5>2. h = g /\ j = i + 1
            BY <4>2, <4>4, <5>1
          <5>3. j > 1
            BY <2>4, <5>2
          <5>. QED  BY <2>3, <3>3, <4>4, <5>1, <5>2, <5>3
        <4>. QED  BY <4>3, <4>4
      <3>. QED  BY <2>7, <3>1, <3>2, <3>3
    <2>11. ASSUME NEW h \in Goroutines, NEW i \in DOMAIN run'[h],
                  run'[h][i].op = "do", Mine(run'[h][i], u, b)
           PROVE  /\ \A k \in Goroutines : \A j \in DOMAIN run'[k] : run'[k][j].user = u => k = h
                  /\ i = 1 => states'[u].born # b
      <3>1. PICK l \in DOMAIN run[h] : run'[h][i] = run[h][l] /\ (h = g => l = i + 1)
        BY <2>6
      <3>2. /\ \A k \in Goroutines : \A j \in DOMAIN run[k] : run[k][j].user = u => k = h
            /\ l = 1 => states[u].born # b
        BY <1>3, <2>11, <3>1
      <3>3. \A k \in Goroutines : \A j \in DOMAIN run'[k] : run'[k][j].user = u => k = h
        BY <2>6, <3>2
      <3>4. ASSUME i = 1, h = g  PROVE states'[u].born # b
        <4>1. 2 \in DOMAIN run[g] /\ run[g][2].op = "do" /\ run[g][2].user = u
              /\ run[g][2].st.born = b
          BY <2>11, <3>1, <3>4
        <4>2. e = Del(u)
          BY <2>3, <4>1 DEF PlanOK
        <4>3. e.op = "set" /\ e.user = u /\ e.st = NoState
          BY <4>2 DEF Del, Set
        <4>4. b \in 1..updates
          BY <4>1 DEF PlannedOK, CallOK
        <4>. QED  BY <2>5, <4>3, <4>4, NoStateIs
      <3>5. ASSUME i = 1, h # g  PROVE states'[u].born # b
        <4>1. run'[h] = run[h]
          BY <2>1, <3>5
        <4>2. 1 \in DOMAIN run[h] /\ run[h][1].op = "do" /\ Mine(run[h][1], u, b)
          BY <2>11, <3>5, <4>1
        <4>3. states[u].born # b /\ e.user # u
          BY <1>3, <2>1, <3>2, <3>5, <4>2
        <4>. QED  BY <2>5, <4>3
      <3>. QED  BY <3>3, <3>4, <3>5
    <2>. QED  BY <2>9, <2>10, <2>11
  <1>7. ASSUME Restart  PROVE N1(u, b) /\ N2(u, b) /\ N3(u, b)
    <2>1. /\ states'[u] = NoState /\ \A g \in Goroutines : DOMAIN run'[g] = {}
          /\ done' = done
      BY <1>7, RestartFacts
    <2>2. \A n \in DOMAIN done : Mine(done[n], u, b) => NoState.born # b
      BY <1>4, NoStateIs
    <2>. QED  BY <1>3, <2>1, <2>2
  <1>8. ASSUME UNCHANGED vars  PROVE N1(u, b) /\ N2(u, b) /\ N3(u, b)
    <2>1. done' = done /\ run' = run /\ states' = states
      BY <1>8 DEF vars
    <2>. QED  BY <1>3, <2>1
  <1>. HIDE DEF N1, N2, N3
  <1>. QED  BY <1>5, <1>6, <1>7, <1>8 DEF StepKind

(* A conversation that is not the user's newest is read only while its     *)
(* successor waits to be stored, and then it is crossed.                   *)
LEMMA StaleIsCrossed ==
    ASSUME Shape, LatestOK, NEW g \in Goroutines, NEW u \in Users, NEW plan \in Seq(Effects),
           Reads(g, u, plan)
    PROVE  states[u].born \in {0, latest[u]} \cup crossed'
  <1>1. /\ crossed \subseteq crossed'
        /\ AtWork(u) # {} => states[u].born \in crossed'
    BY ReadsFacts
  <1>2. CASE states[u].born \in {0, latest[u]} \cup crossed
    BY <1>1, <1>2
  <1>3. CASE \E h \in Goroutines : \E i \in DOMAIN run[h] :
                run[h][i].op = "set" /\ run[h][i].user = u
    <2>1. AtWork(u) # {}
      BY <1>3, AtWorkHas
    <2>. QED  BY <1>1, <2>1
  <1>. QED  BY <1>2, <1>3 DEF LatestOK

LEMMA LatestStep ==
    ASSUME Shape, LatestOK, StepKind
    PROVE  LatestOK'
  <1>. DEFINE Pending(u) == \E g \in Goroutines : \E i \in DOMAIN run'[g] :
                               run'[g][i].op = "set" /\ run'[g][i].user = u
              L1(u) == \A g \in Goroutines : \A i \in DOMAIN run'[g] :
                          run'[g][i].op = "set" /\ run'[g][i].user = u =>
                             run'[g][i].st.born \in {0, latest'[u]} \cup crossed'
              L2(u) == states'[u].born \in {0, latest'[u]} \cup crossed' \/ Pending(u)
  <1>0. /\ states \in [Users -> State] /\ latest \in [Users -> 0..MaxUpdates]
        /\ updates \in Nat
    BY ConversationAssumption DEF Shape
  <1>1. SUFFICES ASSUME NEW u \in Users  PROVE L1(u) /\ L2(u)
    BY DEF LatestOK
  <1>2. /\ \A g \in Goroutines : \A i \in DOMAIN run[g] :
              run[g][i].op = "set" /\ run[g][i].user = u =>
                 run[g][i].st.born \in {0, latest[u]} \cup crossed
        /\ \/ states[u].born \in {0, latest[u]} \cup crossed
           \/ \E g \in Goroutines : \E i \in DOMAIN run[g] :
                 run[g][i].op = "set" /\ run[g][i].user = u
    BY DEF LatestOK
  <1>3. ASSUME NEW g \in Goroutines, NEW x \in Users, NEW plan \in Seq(Effects), Reads(g, x, plan)
        PROVE  L1(u) /\ L2(u)
    <2>1. /\ run[g] = << >> /\ run'[g] = plan
          /\ \A h \in Goroutines : h # g => run'[h] = run[h]
          /\ states' = states /\ crossed \subseteq crossed'
      BY <1>3, ReadsFacts
    <2>2. DOMAIN run[g] = {}
      BY <2>1
    <2>3. /\ plan # << >> /\ plan[1].op = "set"
          /\ \A i \in DOMAIN plan : plan[i].user = x
          /\ \A i \in DOMAIN plan : plan[i].op = "set" =>
                \/ plan[i].st.born \in {0, states[x].born} /\ latest' = latest
                \/ plan[i].st.born = updates + 1 /\ latest' = [latest EXCEPT ![x] = updates + 1]
      BY <1>3 DEF Reads, Planned
    <2>4. 1 \in DOMAIN plan
      BY <2>3
    <2>5. CASE x # u
      <3>1. latest'[u] = latest[u]
        BY <1>0, <2>3, <2>4, <2>5
      <3>2. L1(u)
        <4>1. SUFFICES ASSUME NEW h \in Goroutines, NEW i \in DOMAIN run'[h],
                              run'[h][i].op = "set", run'[h][i].user = u
                       PROVE  run'[h][i].st.born \in {0, latest'[u]} \cup crossed'
          OBVIOUS
        <4>2. h # g
          BY <2>1, <2>3, <2>5, <4>1
        <4>3. run[h][i].st.born \in {0, latest[u]} \cup crossed
          BY <1>2, <2>1, <4>1, <4>2
        <4>. QED  BY <2>1, <3>1, <4>2, <4>3
      <3>3. L2(u)
        <4>1. ASSUME NEW h \in Goroutines, NEW i \in DOMAIN run[h],
                     run[h][i].op = "set" /\ run[h][i].user = u
              PROVE  Pending(u)
          BY <2>1, <2>2, <4>1
        <4>. QED  BY <1>2, <2>1, <3>1, <4>1
      <3>. QED  BY <3>2, <3>3
    <2>6. CASE x = u /\ latest' = latest
      <3>1. states[u].born \in {0, latest'[u]} \cup crossed'
        BY <1>3, <2>6, StaleIsCrossed
      <3>2. L1(u)
        <4>1. SUFFICES ASSUME NEW h \in Goroutines, NEW i \in DOMAIN run'[h],
                              run'[h][i].op = "set", run'[h][i].user = u
                       PROVE  run'[h][i].st.born \in {0, latest'[u]} \cup crossed'
          OBVIOUS
        <4>2. CASE h = g
          <5>1. i \in DOMAIN plan /\ run'[h][i] = plan[i]
            BY <2>1, <4>1, <4>2
          <5>2. \/ plan[i].st.born \in {0, states[u].born}
                \/ plan[i].st.born = updates + 1 /\ latest' = [latest EXCEPT ![u] = updates + 1]
            BY <2>3, <2>6, <4>1, <5>1
          <5>3. latest' = [latest EXCEPT ![u] = updates + 1] => latest'[u] = updates + 1
            BY <1>0
          <5>. QED  BY <3>1, <5>1, <5>2, <5>3
        <4>3. CASE h # g
          BY <1>2, <2>1, <2>6, <4>1, <4>3
        <4>. QED  BY <4>2, <4>3
      <3>. QED  BY <2>1, <3>1, <3>2
    <2>7. CASE x = u /\ latest' # latest
      <3>1. latest' = [latest EXCEPT ![u] = updates + 1]
        BY <2>3, <2>4, <2>7
      <3>2. latest'[u] = updates + 1
        BY <1>0, <3>1
      <3>3. L1(u)
        <4>1. SUFFICES ASSUME NEW h \in Goroutines, NEW i \in DOMAIN run'[h],
                              run'[h][i].op = "set", run'[h][i].user = u
                       PROVE  run'[h][i].st.born \in {0, latest'[u]} \cup crossed'
          OBVIOUS
        <4>2. CASE h = g
          BY <2>1, <2>3, <2>7, <3>2, <4>1, <4>2
        <4>3. CASE h # g
          <5>1. i \in DOMAIN run[h] /\ run[h][i] = run'[h][i]
            BY <2>1, <4>3
          <5>2. run[h][i].st.born \in AtWork(u)
            BY <4>1, <5>1, AtWorkHas
          <5>3. AtWork(u) # {} => AtWork(u) \subseteq crossed'
            BY <1>3, <2>7, ReadsFacts
          <5>. QED  BY <5>1, <5>2, <5>3
        <4>. QED  BY <4>2, <4>3
      <3>4. Pending(u)
        BY <2>1, <2>3, <2>4, <2>7
      <3>. QED  BY <3>3, <3>4
    <2>. QED  BY <2>5, <2>6, <2>7
  <1>4. ASSUME NEW g \in Goroutines, Effect(g)  PROVE L1(u) /\ L2(u)
    <2>. DEFINE e == run[g][1]
    <2>1. /\ 1 \in DOMAIN run[g] /\ e \in Effects
          /\ \A i \in DOMAIN run'[g] : i + 1 \in DOMAIN run[g] /\ run'[g][i] = run[g][i + 1]
          /\ \A i \in DOMAIN run[g] : i # 1 => i - 1 \in DOMAIN run'[g]
          /\ \A h \in Goroutines : h # g => run'[h] = run[h]
          /\ states' = IF e.op = "set" THEN [states EXCEPT ![e.user] = e.st] ELSE states
          /\ latest' = latest /\ crossed' = crossed
      BY <1>4, EffectFacts
    <2>2. states'[u] = IF e.op = "set" /\ e.user = u THEN e.st ELSE states[u]
      BY <1>0, <2>1
    <2>3. L1(u)
      BY <1>2, <2>1
    <2>4. CASE e.op = "set" /\ e.user = u
      <3>1. states'[u].born \in {0, latest'[u]} \cup crossed'
        BY <1>2, <2>1, <2>2, <2>4
      <3>. QED  BY <2>3, <3>1
    <2>5. CASE ~(e.op = "set" /\ e.user = u)
      <3>1. states'[u] = states[u]
        BY <2>2, <2>5
      <3>2. ASSUME NEW h \in Goroutines, NEW i \in DOMAIN run[h],
                   run[h][i].op = "set" /\ run[h][i].user = u
            PROVE  Pending(u)
        <4>1. CASE h # g
          BY <2>1, <3>2, <4>1
        <4>2. CASE h = g
          <5>1. i # 1 /\ i \in Nat /\ i - 1 \in DOMAIN run'[g]
            <6>1. run[h] \in Seq(Effects)
              BY DEF Shape
            <6>. QED  BY <2>1, <2>5, <3>2, <4>2, <6>1
          <5>2. run'[g][i - 1] = run[g][(i - 1) + 1] /\ (i - 1) + 1 = i
            BY <2>1, <5>1
          <5>. QED  BY <3>2, <4>2, <5>1, <5>2
        <4>. QED  BY <4>1, <4>2
      <3>. QED  BY <1>2, <2>1, <2>3, <3>1, <3>2
    <2>. QED  BY <2>4, <2>5
  <1>5. ASSUME Restart  PROVE L1(u) /\ L2(u)
    <2>1. states'[u] = NoState /\ \A g \in Goroutines : DOMAIN run'[g] = {}
      BY <1>5, RestartFacts
    <2>. QED  BY <2>1, NoStateIs
  <1>6. ASSUME UNCHANGED vars  PROVE L1(u) /\ L2(u)
    <2>1. run' = run /\ states' = states /\ latest' = latest /\ crossed' = crossed
      BY <1>6 DEF vars
    <2>. QED  BY <1>2, <2>1
  <1>. HIDE DEF L1, L2
  <1>. QED  BY <1>3, <1>4, <1>5, <1>6 DEF StepKind

-----------------------------------------------------------------------------
LEMMA TalkInit ==
    ASSUME Init
    PROVE  TalkInv
  <1>1. /\ \A u \in Users : states[u] = NoState /\ latest[u] = 0
        /\ \A g \in Goroutines : run[g] = << >> /\ DOMAIN run[g] = {}
        /\ messages = << >> /\ done = << >> /\ DOMAIN done = {}
    BY DEF Init, Idle
  <1>2. Shape
    <2>1. states \in [Users -> State] /\ run \in [Goroutines -> Seq(Effects)]
      <3>1. << >> \in Seq(Effects)
        OBVIOUS
      <3>. QED  BY <3>1, NoStateIs DEF Init, Idle
    <2>2. messages \in Seq(Message) /\ done \in Seq(ServiceCall)
      BY <1>1
    <2>3. /\ latest \in [Users -> 0..MaxUpdates] /\ crossed \subseteq 0..MaxUpdates
          /\ updates \in 0..MaxUpdates /\ restarts \in 0..MaxRestarts
      BY ConversationAssumption DEF Init
    <2>. QED  BY <2>1, <2>2, <2>3 DEF Shape
  <1>3. StoredOK
    BY <1>1, NoStateIs DEF StoredOK, StateOK, Settling
  <1>4. PlannedOK /\ DoneOK /\ OnceOK
    BY <1>1 DEF PlannedOK, PlanOK, DoneOK, OnceOK
  <1>5. LatestOK
    BY <1>1, NoStateIs DEF LatestOK
  <1>. QED  BY <1>2, <1>3, <1>4, <1>5 DEF TalkInv

LEMMA TalkStep ==
    ASSUME TalkInv, [Next]_vars
    PROVE  TalkInv'
  <1>1. Shape /\ StoredOK /\ PlannedOK /\ DoneOK /\ OnceOK /\ LatestOK
    BY DEF TalkInv
  <1>2. StepKind
    BY <1>1, StepKinds
  <1>3. Shape'
    BY <1>1, <1>2, ShapeStep
  <1>4. StoredOK'
    BY <1>1, <1>2, <1>3, StoredStep
  <1>5. PlannedOK'
    BY <1>1, <1>2, <1>3, PlannedStep
  <1>6. DoneOK'
    BY <1>1, <1>2, <1>3, DoneStep
  <1>7. OnceOK'
    BY <1>1, <1>2, OnceStep
  <1>8. LatestOK'
    BY <1>1, <1>2, LatestStep
  <1>. QED  BY <1>3, <1>4, <1>5, <1>6, <1>7, <1>8 DEF TalkInv

LEMMA TalkAlways == Spec => []TalkInv
  <1>1. Init => TalkInv
    BY TalkInit
  <1>2. TalkInv /\ [Next]_vars => TalkInv'
    BY TalkStep
  <1>. QED  BY <1>1, <1>2, PTL DEF Spec

(* Conversations, messages and calls are well formed, whatever order the   *)
(* handlers of an update run in.                                           *)
THEOREM TalkTypeCorrect == Spec => []TypeOK
  <1>1. ASSUME TalkInv  PROVE TypeOK
    <2>1. Shape
      BY <1>1 DEF TalkInv
    <2>2. ASSUME NEW m \in DOMAIN messages
          PROVE  /\ messages[m].user \in Users /\ messages[m].st \in State
                 /\ messages[m].buttons \in BOOLEAN
      <3>1. messages[m] \in Message
        BY <2>1 DEF Shape
      <3>. QED  BY <3>1 DEF Message
    <2>3. ASSUME NEW n \in DOMAIN done  PROVE done[n].user \in Users /\ done[n].st \in State
      <3>1. done[n] \in ServiceCall
        BY <2>1 DEF Shape
      <3>. QED  BY <3>1 DEF ServiceCall
    <2>. QED  BY <2>1, <2>2, <2>3 DEF Shape, TypeOK
  <1>. QED  BY <1>1, TalkAlways, PTL

(* A call of the wallet service carries the data of one conversation: what *)
(* a handler passes to the service was typed or tapped as one, although    *)
(* h.states may change between any two effects of a handler.               *)
THEOREM CallsCarryOneConversation == Spec => []CallsAsEntered
  <1>1. ASSUME TalkInv  PROVE CallsAsEntered
    BY <1>1 DEF TalkInv, DoneOK, CallOK, CallsAsEntered
  <1>. QED  BY <1>1, TalkAlways, PTL

(* Settlements and credits are the owner's, although handleAdminApprove    *)
(* and handleAdminReject rely on startApprove and startReject for it.      *)
THEOREM SettlementsAreTheOwners == Spec => []OwnerOnly
  <1>1. ASSUME TalkInv  PROVE OwnerOnly
    BY <1>1 DEF TalkInv, DoneOK, CallOK, OwnerOnly
  <1>. QED  BY <1>1, TalkAlways, PTL

(* A conversation that no second handler of its user crossed leads to one  *)
(* call, however many times its button is tapped.                          *)
THEOREM ConversationsExecuteOnce == Spec => []ExecutedOnce
  <1>1. ASSUME TalkInv  PROVE ExecutedOnce
    <2>1. Shape /\ OnceOK
      BY <1>1 DEF TalkInv
    <2>2. SUFFICES ASSUME NEW m \in DOMAIN done, NEW n \in DOMAIN done,
                          done[m].user = done[n].user, done[m].st.born = done[n].st.born,
                          done[m].st.born \notin crossed
                   PROVE  m = n
      BY DEF ExecutedOnce
    <2>3. done[m].user \in Users /\ done[m].st.born \in Nat
      <3>1. done[m] \in ServiceCall
        BY <2>1 DEF Shape
      <3>2. done[m].user \in Users /\ done[m].st \in State
        BY <3>1 DEF ServiceCall
      <3>. QED  BY <3>2 DEF State
    <2>. QED  BY <2>1, <2>2, <2>3 DEF OnceOK
  <1>. QED  BY <1>1, TalkAlways, PTL

(* A handler that decides to call the service acts on the conversation its *)
(* user began last, unless another handler of the user was at work.        *)
THEOREM NewestIsExecuted == Spec => NewestExecuted
  <1>. DEFINE Newest == \A g \in Goroutines : run[g] = Idle =>
                           \A i \in DOMAIN run'[g] :
                              LET e == run'[g][i] IN
                              e.op = "do" => e.st.born = latest[e.user] \/ e.st.born \in crossed'
  <1>1. ASSUME TalkInv, [Next]_vars  PROVE [Newest]_vars
    <2>1. Shape /\ StoredOK /\ LatestOK /\ StepKind
      BY <1>1, StepKinds DEF TalkInv
    <2>2. SUFFICES ASSUME NEW g \in Goroutines, run[g] = << >>, NEW i \in DOMAIN run'[g],
                          run'[g][i].op = "do"
                   PROVE  \/ run'[g][i].st.born = latest[run'[g][i].user]
                          \/ run'[g][i].st.born \in crossed'
      BY DEF Idle
    <2>3. DOMAIN run[g] = {}
      BY <2>2
    <2>4. ASSUME NEW h \in Goroutines, NEW u \in Users, NEW plan \in Seq(Effects),
                 Reads(h, u, plan)
          PROVE  \/ run'[g][i].st.born = latest[run'[g][i].user]
                 \/ run'[g][i].st.born \in crossed'
      <3>1. run'[h] = plan /\ (g # h => run'[g] = run[g])
        BY <2>1, <2>4, ReadsFacts
      <3>2. g = h /\ i \in DOMAIN plan /\ run'[g][i] = plan[i]
        BY <2>2, <2>3, <3>1
      <3>3. plan[i].user = u /\ CallOK(u, plan[i].st)' /\ plan[i].st.born = states[u].born
        BY <2>2, <2>4, <3>2 DEF Reads, Planned
      <3>4. plan[i].st.born # 0
        BY <3>3 DEF CallOK
      <3>5. states[u].born \in {0, latest[u]} \cup crossed'
        BY <2>1, <2>4, StaleIsCrossed
      <3>. QED  BY <3>2, <3>3, <3>4, <3>5
    <2>5. ASSUME NEW h \in Goroutines, Effect(h)  PROVE FALSE
      <3>1. /\ 1 \in DOMAIN run[h] /\ \A k \in Goroutines : k # h => run'[k] = run[k]
        BY <2>1, <2>5, EffectFacts
      <3>. QED  BY <2>2, <2>3, <3>1
    <2>6. ASSUME Restart  PROVE FALSE
      BY <2>1, <2>2, <2>6, RestartFacts
    <2>7. ASSUME UNCHANGED vars  PROVE FALSE
      BY <2>2, <2>3, <2>7 DEF vars
    <2>. QED  BY <2>1, <2>4, <2>5, <2>6, <2>7 DEF StepKind
  <1>2. Spec => [][Newest]_vars
    BY <1>1, TalkAlways, PTL DEF Spec
  <1>. QED  BY <1>2 DEF NewestExecuted

(* The handlers of a user do not overlap: what is still to be done for a   *)
(* user is in one goroutine.                                               *)
OneHandler ==
    \A g, h \in Goroutines : \A i \in DOMAIN run[g], j \in DOMAIN run[h] :
        run[g][i].user = run[h][j].user => g = h

(* No two calls of the wallet service belong to one conversation.          *)
NeverExecutedTwice ==
    \A m, n \in DOMAIN done :
        done[m].user = done[n].user /\ done[m].st.born = done[n].st.born => m = n

(* A handler that decides to call the service has read the conversation    *)
(* its user began last.                                                    *)
AlwaysNewest ==
    [][\A g \in Goroutines : run[g] = Idle =>
          \A i \in DOMAIN run'[g] :
              LET e == run'[g][i] IN e.op = "do" => e.st.born = latest[e.user]]_vars

Uncrossed == crossed = {}

(* A conversation is crossed only when two handlers of its user are at     *)
(* work after the step.                                                    *)
LEMMA SerialStep ==
    ASSUME Shape, StepKind, OneHandler', Uncrossed
    PROVE  Uncrossed'
  <1>1. ASSUME NEW g \in Goroutines, NEW u \in Users, NEW plan \in Seq(Effects),
               Reads(g, u, plan), AtWork(u) # {}
        PROVE  FALSE
    <2>1. PICK h \in Goroutines : \E j \in DOMAIN run[h] : run[h][j].user = u
      BY <1>1 DEF AtWork
    <2>2. PICK j \in DOMAIN run[h] : run[h][j].user = u
      BY <2>1
    <2>3. /\ run[g] = << >> /\ run'[g] = plan
          /\ h # g => run'[h] = run[h]
      BY <1>1, ReadsFacts
    <2>4. DOMAIN run[g] = {}
      BY <2>3
    <2>5. h # g /\ j \in DOMAIN run'[h] /\ run'[h][j].user = u
      BY <2>2, <2>3, <2>4
    <2>6. plan # << >> /\ Head(plan).user = u
      BY <1>1 DEF Reads
    <2>7. 1 \in DOMAIN run'[g] /\ run'[g][1].user = u
      BY <2>3, <2>6
    <2>. QED  BY <2>5, <2>7 DEF OneHandler
  <1>2. ASSUME NEW g \in Goroutines, NEW u \in Users, NEW plan \in Seq(Effects),
               Reads(g, u, plan)
        PROVE  crossed' = crossed
    <2>1. AtWork(u) = {}
      BY <1>1, <1>2
    <2>2. crossed' = IF AtWork(u) = {} THEN crossed
                     ELSE crossed \cup AtWork(u) \cup {states[u].born}
      BY <1>2 DEF Reads, Update
    <2>. QED  BY <2>1, <2>2
  <1>3. ASSUME NEW g \in Goroutines, Effect(g)  PROVE crossed' = crossed
    BY <1>3, EffectFacts
  <1>4. ASSUME Restart \/ UNCHANGED vars  PROVE crossed' = crossed
    BY <1>4 DEF Restart, vars
  <1>. QED  BY <1>2, <1>3, <1>4 DEF StepKind, Uncrossed

LEMMA SerialAlways == Spec /\ []OneHandler => []Uncrossed
  <1>1. Init => Uncrossed
    BY DEF Init, Uncrossed
  <1>2. TalkInv /\ Uncrossed /\ OneHandler' /\ [Next]_vars => Uncrossed'
    <2>1. SUFFICES ASSUME TalkInv, Uncrossed, OneHandler', [Next]_vars  PROVE Uncrossed'
      OBVIOUS
    <2>2. Shape /\ StepKind
      BY <2>1, StepKinds DEF TalkInv
    <2>. QED  BY <2>1, <2>2, SerialStep
  <1>. QED  BY <1>1, <1>2, TalkAlways, PTL DEF Spec

(* If the bot handled the updates of a user one at a time, a conversation  *)
(* would lead to at most one call, however often its button is tapped and  *)
(* across restarts: deleting the conversation before the call is enough.   *)
THEOREM SerialConversationsExecuteOnce == Spec /\ []OneHandler => []NeverExecutedTwice
  <1>1. ExecutedOnce /\ Uncrossed => NeverExecutedTwice
    BY DEF Uncrossed, ExecutedOnce, NeverExecutedTwice
  <1>. QED  BY <1>1, ConversationsExecuteOnce, SerialAlways, PTL

(* ... and it would always be the conversation the user began last.        *)
THEOREM SerialConversationsAreNewest == Spec /\ []OneHandler => AlwaysNewest
  <1>. DEFINE Newest == \A g \in Goroutines : run[g] = Idle =>
                           \A i \in DOMAIN run'[g] :
                              LET e == run'[g][i] IN
                              e.op = "do" => e.st.born = latest[e.user] \/ e.st.born \in crossed'
              Only == \A g \in Goroutines : run[g] = Idle =>
                         \A i \in DOMAIN run'[g] :
                            LET e == run'[g][i] IN e.op = "do" => e.st.born = latest[e.user]
  <1>1. [Newest]_vars /\ Uncrossed' => [Only]_vars
    BY DEF Uncrossed
  <1>2. Spec => [][Newest]_vars
    BY NewestIsExecuted DEF NewestExecuted
  <1>. HIDE DEF Newest, Only
  <1>3. Spec /\ []OneHandler => [][Only]_vars
    BY <1>1, <1>2, SerialAlways, PTL
  <1>. QED  BY <1>3 DEF AlwaysNewest, Only
===========================================================================
