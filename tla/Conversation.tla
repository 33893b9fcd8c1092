---------------------------- MODULE Conversation ----------------------------
(***************************************************************************)
(* The multi-step conversations of the Telegram bot: withdrawal, transfer, *)
(* deposit of an amount of choice and, for the owner of the bot, approval  *)
(* and rejection of withdrawals, manual credit and user look-up.  telebot  *)
(* runs every update in a goroutine of its own, so the handlers of one     *)
(* user interleave; they share h.states, whose methods are atomic, and the *)
(* messages with buttons in the chat.                                      *)
(*                                                                         *)
(* A handler reads the conversation once and never again, so what it will  *)
(* do is known when it has read: its remaining effects are the state of    *)
(* its goroutine.                                                          *)
(***************************************************************************)
EXTENDS Naturals, Sequences

CONSTANTS
    Users,
    BotOwner,     \* Handler.ownerID
    Goroutines,   \* handlers that run at the same time
    Addresses,    \* valid TON addresses
    Requests,     \* the withdrawal requests on the owner's pages
    Amounts,      \* amounts a user types, after TONToNano
    Offered,      \* the kinds of conversation this instance explores
    Nothing,      \* the empty string, the zero id
    MaxUpdates,   \* bound: updates that reach a handler
    MaxRestarts   \* bound: restarts of botpay

Settling == {"approve", "reject"}
AdminKinds == Settling \cup {"credit", "lookup"}
ConfirmedKinds == {"withdraw", "transfer", "credit"}
Kinds == ConfirmedKinds \cup AdminKinds \cup {"deposit"}

ASSUME ConversationAssumption ==
    /\ BotOwner \in Users /\ Offered \subseteq Kinds
    /\ Amounts \subseteq Nat
    /\ Nothing \notin Users \cup Addresses \cup Requests
    /\ MaxUpdates \in Nat /\ MaxRestarts \in Nat

VARIABLES
    states,    \* h.states: the conversation of every user, in memory
    run,       \* run[g]: the effects the handler in goroutine g still has to make
    messages,  \* the confirmation messages of the chats, oldest first
    done,      \* the calls of the wallet service that were carried out, and by which
               \* message's button (0: by a text)
    meant,     \* history: what users asked for, as the handlers read it
    latest,    \* history: the update that began the newest conversation of a user
    crossed,   \* history: conversations in the hands of a handler while another
               \* handler of their user read
    updates, restarts

vars == <<states, run, messages, done, meant, latest, crossed, updates, restarts>>

(* What the step after kind and user id asks for: an address, the id or    *)
(* handle of somebody else, any user's id.                                 *)
Targets(kind, u) ==
    CASE kind = "withdraw" -> Addresses
      [] kind = "transfer" -> Users \ {u}
      [] kind = "credit"   -> Users
      [] OTHER             -> {}

(* convState.  target stands for addr, toID and arg; born is history: the  *)
(* update that began the conversation.                                     *)
State == [kind : Kinds \cup {"none"}, step : {"none", "target", "amount", "confirm"},
          target : Users \cup Addresses \cup Requests \cup {Nothing},
          amount : Amounts \cup {0}, born : 0..MaxUpdates]

NoState == [kind |-> "none", step |-> "none", target |-> Nothing, amount |-> 0, born |-> 0]
Fresh(kind) == [NoState EXCEPT !.kind = kind, !.born = updates + 1,
                               !.step = IF kind \in ConfirmedKinds THEN "target" ELSE "none"]

(* What a handler does after it has read the conversation.                 *)
Set(u, st) == [op |-> "set", user |-> u, st |-> st]
Del(u) == Set(u, NoState)
Show(u, st) == [op |-> "show", user |-> u, st |-> st]
Do(u, st, m) == [op |-> "do", user |-> u, st |-> st, message |-> m]
Retire(u, st, m) == [op |-> "retire", user |-> u, st |-> st, message |-> m]

Idle == << >>

Init ==
    /\ states = [u \in Users |-> NoState]
    /\ run = [g \in Goroutines |-> Idle]
    /\ messages = << >> /\ done = << >> /\ meant = {}
    /\ latest = [u \in Users |-> 0] /\ crossed = {}
    /\ updates = 0 /\ restarts = 0

IsAdminAnyone(u) == TRUE
IsAdmin(u) == u = BotOwner
Wish(u, st) == [user |-> u, st |-> st]

(* The conversations in the hands of the handlers of a user at work.       *)
AtWork(u) ==
    UNION {{run[g][i].st.born : i \in {j \in DOMAIN run[g] : run[g][j].user = u}} :
           g \in Goroutines}

(* An update of a user reaches a free goroutine, which will make plan.     *)
Update(g, plan) ==
    LET u == Head(plan).user IN
    /\ run[g] = Idle /\ updates < MaxUpdates
    /\ updates' = updates + 1
    /\ run' = [run EXCEPT ![g] = plan]
    /\ crossed' = IF AtWork(u) = {} THEN crossed
                  ELSE crossed \cup AtWork(u) \cup {states[u].born}
    /\ UNCHANGED <<states, messages, done, restarts>>

(* onWithdraw, onTransfer, "dep:custom", startCredit, startLookup.  A      *)
(* wallet with too little in it is refused before anything changes.        *)
Begin(g, u, kind) ==
    /\ kind \in Offered \ Settling
    /\ kind \in AdminKinds => IsAdmin(u)
    /\ Update(g, <<Set(u, Fresh(kind))>>)
    /\ latest' = [latest EXCEPT ![u] = updates + 1]
    /\ UNCHANGED meant

(* startApprove, startReject: the button carries the id of the request.    *)
Choose(g, u, kind, r) ==
    LET st == [Fresh(kind) EXCEPT !.target = r] IN
    /\ kind \in Offered \cap Settling /\ IsAdmin(u)
    /\ Update(g, <<Set(u, st)>>)
    /\ latest' = [latest EXCEPT ![u] = updates + 1]
    /\ meant' = meant \cup {Wish(u, st)}

(* isCancel, the first test of every text handler.                         *)
TextCancel(g, u) ==
    /\ states[u] # NoState
    /\ Update(g, <<Del(u)>>)
    /\ UNCHANGED <<meant, latest>>

(* The step "addr", "recipient" or "user_id" with a valid text.  Withdraw  *)
(* and transfer then read the wallet and end the conversation on an error. *)
WithTarget(st, x) == [st EXCEPT !.target = x, !.step = "amount"]

TextTarget(g, u, x) ==
    LET st == states[u]
        next == Set(u, WithTarget(st, x)) IN
    /\ st.step = "target" /\ x \in Targets(st.kind, u)
    /\ \/ Update(g, <<next>>)
       \/ st.kind # "credit" /\ Update(g, <<next, Del(u)>>)
    /\ UNCHANGED <<meant, latest>>

(* The step "amount" with a positive number.  The conversation is stored   *)
(* before the message with the buttons is sent.                            *)
WithAmount(st, a) == [st EXCEPT !.amount = a, !.step = "confirm"]

TextAmount(g, u, a) ==
    LET st == WithAmount(states[u], a) IN
    /\ states[u].step = "amount"
    /\ Update(g, <<Set(u, st), Show(u, st)>>)
    /\ meant' = meant \cup {Wish(u, st)}
    /\ UNCHANGED latest

\* Mutant: the conversation stays until the next one.
CarryOutKeeps(u, st) == <<Do(u, st, 0)>>

\* Mutant: the conversation is read again after it was deleted.
CarryOutLate(u, st) == <<Del(u), Do(u, NoState, 0)>>

(* A text ends the conversation and then has it carried out.               *)
CarryOut(u, st) == <<Del(u), Do(u, st, 0)>>

(* handleDepositCustom.                                                    *)
TextDeposit(g, u, a) ==
    LET st == [states[u] EXCEPT !.amount = a] IN
    /\ st.kind = "deposit"
    /\ Update(g, CarryOut(u, st))
    /\ meant' = meant \cup {Wish(u, st)}
    /\ UNCHANGED latest

(* handleAdminApprove, handleAdminReject: any text is the transaction hash *)
(* or the reason.  They rely on startApprove for who the user is.          *)
TextSettle(g, u) ==
    /\ states[u].kind \in Settling
    /\ Update(g, CarryOut(u, states[u]))
    /\ UNCHANGED <<meant, latest>>

(* handleAdminLookup only reads.                                           *)
TextLookup(g, u) ==
    /\ states[u].kind = "lookup"
    /\ Update(g, <<Del(u)>>)
    /\ UNCHANGED <<meant, latest>>

(* The test of the confirm buttons: "wdr:ok", "trf:ok" and "adm:credit_ok" *)
(* carry the kind and nothing else.                                        *)
Confirmable(st, kind) == st.kind = kind /\ st.step = "confirm"

(* The conversation ends before the wallet service is called.              *)
Accepted(u, st, m) == <<Del(u), Do(u, st, m), Retire(u, st, m)>>

TapOk(g, m) ==
    LET u == messages[m].user
        st == states[u] IN
    /\ messages[m].buttons
    /\ Confirmable(st, messages[m].st.kind)
    /\ messages[m].st.kind = "credit" => IsAdmin(u)
    /\ Update(g, Accepted(u, st, m))
    /\ UNCHANGED <<meant, latest>>

(* "adm:cancel" deletes whatever conversation there is.                    *)
TapCancel(g, m) ==
    LET u == messages[m].user
        kind == messages[m].st.kind IN
    /\ messages[m].buttons
    /\ kind = "credit" \/ Confirmable(states[u], kind)
    /\ Update(g, <<Del(u), Retire(u, states[u], m)>>)
    /\ UNCHANGED <<meant, latest>>

\* Mutant: a conversation that has not ended is not replaced.
SetStateKeeps(g, e) ==
    /\ e.op = "set"
    /\ states' = [states EXCEPT ![e.user] =
                     IF @ # NoState /\ e.st # NoState /\ e.st.born # @.born THEN @ ELSE e.st]
    /\ UNCHANGED <<messages, done>>

(* The handler's next effect.  A message that cannot be sent, an edit that *)
(* fails and a call that is refused do not stop it.                        *)
SetState(g, e) ==
    /\ e.op = "set"
    /\ states' = [states EXCEPT ![e.user] = e.st]
    /\ UNCHANGED <<messages, done>>

SendConfirm(g, e) ==
    /\ e.op = "show"
    /\ messages' \in {messages, Append(messages, [user |-> e.user, st |-> e.st, buttons |-> TRUE])}
    /\ UNCHANGED <<states, done>>

CallService(g, e) ==
    /\ e.op = "do"
    /\ done' \in {done, Append(done, [user |-> e.user, st |-> e.st, by |-> e.message])}
    /\ UNCHANGED <<states, messages>>

EditMessage(g, e) ==
    /\ e.op = "retire"
    /\ messages' \in {messages, [messages EXCEPT ![e.message].buttons = FALSE]}
    /\ UNCHANGED <<states, done>>

Effect(g) ==
    /\ run[g] # Idle
    /\ run' = [run EXCEPT ![g] = Tail(@)]
    /\ LET e == Head(run[g]) IN
       SetState(g, e) \/ SendConfirm(g, e) \/ CallService(g, e) \/ EditMessage(g, e)
    /\ UNCHANGED <<meant, latest, crossed, updates, restarts>>

(* A restart forgets the conversations; the messages stay in the chats.    *)
Restart ==
    /\ restarts < MaxRestarts /\ restarts' = restarts + 1
    /\ states' = [u \in Users |-> NoState]
    /\ run' = [g \in Goroutines |-> Idle]
    /\ UNCHANGED <<messages, done, meant, latest, crossed, updates>>

Next ==
    \/ \E g \in Goroutines, u \in Users :
          \/ \E kind \in Offered : Begin(g, u, kind)
          \/ \E kind \in Offered, r \in Requests : Choose(g, u, kind, r)
          \/ TextCancel(g, u)
          \/ \E x \in Users \cup Addresses : TextTarget(g, u, x)
          \/ \E a \in Amounts : TextAmount(g, u, a) \/ TextDeposit(g, u, a)
          \/ TextSettle(g, u) \/ TextLookup(g, u)
    \/ \E g \in Goroutines, m \in DOMAIN messages : TapOk(g, m) \/ TapCancel(g, m)
    \/ \E g \in Goroutines : Effect(g)
    \/ Restart

Spec == Init /\ [][Next]_vars

-----------------------------------------------------------------------------
(* Every conversation, message and call is well formed.                    *)
TypeOK ==
    /\ states \in [Users -> State]
    /\ \A m \in DOMAIN messages : messages[m].user \in Users
                                  /\ messages[m].st \in State /\ messages[m].buttons \in BOOLEAN
    /\ \A n \in DOMAIN done : done[n].user \in Users /\ done[n].st \in State
    /\ latest \in [Users -> 0..MaxUpdates] /\ crossed \subseteq 0..MaxUpdates
    /\ updates \in 0..MaxUpdates /\ restarts \in 0..MaxRestarts

(* Whatever the handlers of a user interleave, a call of the wallet        *)
(* service carries the data of one conversation: an amount goes to the     *)
(* address or person it was typed for, and a settlement is the one whose   *)
(* button the owner tapped.                                                *)
CallsAsEntered == \A n \in DOMAIN done : Wish(done[n].user, done[n].st) \in meant

(* Only the owner of the bot settles withdrawals and gives credit, although *)
(* the handlers that do it from a text do not ask who the sender is.       *)
OwnerOnly ==
    \A n \in DOMAIN done : done[n].st.kind \in AdminKinds => done[n].user = BotOwner

(* A conversation leads to one call of the wallet service, one withdrawal, *)
(* transfer, credit or settlement: it is deleted before the call, so that  *)
(* a second tap or text finds nothing.  Only handlers of the user that     *)
(* overlap, one of them before the other has deleted it, do it twice.      *)
ExecutedOnce ==
    \A m, n \in DOMAIN done :
        done[m].user = done[n].user /\ done[m].st.born = done[n].st.born
        => m = n \/ done[m].st.born \in crossed

(* A text or a tap carries out the conversation its user began last: an    *)
(* older one, and the request it is about, comes back only when a handler  *)
(* that read it overlaps with another of the user, as when the tap on the  *)
(* next request is handled after the hash sent for it.                     *)
NewestExecuted ==
    [][\A g \in Goroutines : run[g] = Idle =>
          \A i \in DOMAIN run'[g] :
              LET e == run'[g][i] IN
              e.op = "do" => e.st.born = latest[e.user] \/ e.st.born \in crossed']_vars

(* What is carried out is what the message whose button was tapped showed  *)
(* to the user above the question "Confirm?".                              *)
ConfirmedAsShown ==
    \A n \in DOMAIN done : done[n].by # 0 => messages[done[n].by].st = done[n].st
=============================================================================
