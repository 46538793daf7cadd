-------------------------- MODULE MailTransaction --------------------------
(***************************************************************************)
(* What the server promises of a mail, whatever connections do: a client   *)
(* opens a transaction, names recipients, sends the data, and once its end *)
(* is there the mail is delivered, in one step, to everyone named and to   *)
(* nobody else, with the sender and the body it came with.  A transaction  *)
(* is given up at any point before that end, and no later.                 *)
(*                                                                         *)
(* A recipient named twice counts once.                                    *)
(***************************************************************************)
EXTENDS Naturals

CONSTANTS Clients, Senders, Emails, NoAddress

VARIABLES
  tx,         \* Clients -> the transaction of the client
  delivered   \* the mails delivered, each with a number of its own

vars == <<tx, delivered>>

None == [stage |-> "none", from |-> NoAddress, to |-> {}, body |-> 0]

Init ==
  /\ tx = [c \in Clients |-> None]
  /\ delivered = {}

Begin(c) ==
  /\ tx[c].stage = "none"
  /\ \E s \in Senders :
       tx' = [tx EXCEPT ![c] = [stage |-> "open", from |-> s, to |-> {}, body |-> 0]]
  /\ UNCHANGED delivered

Name(c) ==
  /\ tx[c].stage = "open"
  /\ \E e \in Emails : tx' = [tx EXCEPT ![c].to = @ \cup {e}]
  /\ UNCHANGED delivered

Data(c) ==
  /\ tx[c].stage = "open" /\ tx[c].to # {}
  /\ tx' = [tx EXCEPT ![c].stage = "data"]
  /\ UNCHANGED delivered

\* Some lines arrive, and perhaps the end behind them.
Lines(c) ==
  /\ tx[c].stage = "data"
  /\ tx'[c].body \in Nat /\ tx'[c].body >= tx[c].body
  /\ \E stage \in {"data", "queued"} :
       tx' = [tx EXCEPT ![c].stage = stage, ![c].body = tx'[c].body]
  /\ UNCHANGED delivered

Deliver(c) ==
  /\ tx[c].stage = "queued"
  /\ tx' = [tx EXCEPT ![c] = None]
  /\ \E mail \in delivered' :
       /\ delivered' = delivered \cup {mail}
       /\ mail = [number |-> mail.number,
                  from |-> tx[c].from, to |-> tx[c].to, body |-> tx[c].body]
       /\ \A other \in delivered : other.number # mail.number

Abandon(c) ==
  /\ tx[c].stage \in {"open", "data"}
  /\ tx' = [tx EXCEPT ![c] = None]
  /\ UNCHANGED delivered

Next == \E c \in Clients :
          Begin(c) \/ Name(c) \/ Data(c) \/ Lines(c) \/ Deliver(c) \/ Abandon(c)

Spec == Init /\ [][Next]_vars
=============================================================================
