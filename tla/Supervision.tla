---------------------------- MODULE Supervision ----------------------------
(***************************************************************************)
(* udpserver.c beside the connections of SmtpServer: the login of every    *)
(* peer that ever sent a datagram, the commands, and the counters and the  *)
(* flag they read or set.  MailFiles has what the flag does.               *)
(*                                                                         *)
(* A datagram is one call of udp_read_handler.  Any datagram of any peer   *)
(* may come at any time, so those lost, repeated or overtaken on the way   *)
(* are among the behaviours.                                               *)
(*                                                                         *)
(* A datagram is a word: "user" for the name and the password with their   *)
(* newline, "start" for the beginning of them without one, which the       *)
(* comparison over the bytes received takes for the whole; a command with  *)
(* its newline; "other" for the rest, among them any word that ends in     *)
(* CRLF.  A peer not in the list is one in STATE_INIT.                     *)
(***************************************************************************)
EXTENDS SmtpProperties

CONSTANT Peers   \* the addresses, with their ports, that send datagrams

VARIABLES
  clients,          \* Peers -> the state of its node in the list
  transformations,  \* the flag of smtpnio.c
  rights,           \* Peers -> not in the code: right words in a row, to two
  refused           \* not in the code: connections the selector refused

allVars == <<vars, clients, transformations, rights, refused>>

ClientStates ==
  {"STATE_INIT", "STATE_WAIT_USERNAME", "STATE_WAIT_PASSWORD", "STATE_AUTH_SUCCESS"}
Commands == {"historico", "actual", "bytes", "mail", "cant", "status",
             "transon", "transoff", "help"}
Words == Commands \cup {"user", "start", "other"}

SupervisionInit ==
  /\ Init
  /\ clients = [p \in Peers |-> "STATE_INIT"]
  /\ transformations = TRUE
  /\ rights = [p \in Peers |-> 0]
  /\ refused = 0

-----------------------------------------------------------------------------
\* MUTANT: by host; the peers of a host share a node.
find_client_of_host(p) ==
  IF \E q \in Peers : clients[q] # "STATE_INIT"
    THEN CHOOSE q \in Peers : clients[q] # "STATE_INIT"
    ELSE p

find_client(p) == p

\* strncasecmp(buffer, "user", received) == 0
Right(word) == word \in {"user", "start"}

\* MUTANT: a wrong password ends the dialogue.
AfterWordForGood(state, word) ==
  CASE state = "STATE_INIT" -> "STATE_WAIT_USERNAME"
    [] state = "STATE_WAIT_USERNAME" /\ Right(word) -> "STATE_WAIT_PASSWORD"
    [] state = "STATE_WAIT_PASSWORD" /\ Right(word) -> "STATE_AUTH_SUCCESS"
    [] state = "STATE_WAIT_PASSWORD" /\ ~Right(word) -> "STATE_AUTH_FAILED"
    [] OTHER -> state

\* handle_authentication, and the first datagram, which only wakes the dialogue.
AfterWord(state, word) ==
  CASE state = "STATE_INIT" -> "STATE_WAIT_USERNAME"
    [] state = "STATE_WAIT_USERNAME" /\ Right(word) -> "STATE_WAIT_PASSWORD"
    [] state = "STATE_WAIT_PASSWORD" /\ Right(word) -> "STATE_AUTH_SUCCESS"
    [] state = "STATE_WAIT_PASSWORD" /\ ~Right(word) -> "STATE_WAIT_USERNAME"
    [] OTHER -> state

LoggedIn(p) == clients[p] = "STATE_AUTH_SUCCESS"

Authenticate(p, word) ==
  LET node == find_client(p) IN
  /\ ~LoggedIn(node)
  /\ clients' = [clients EXCEPT ![node] = AfterWord(@, word)]
  /\ rights' = [rights EXCEPT ![p] =
       IF clients[node] # "STATE_INIT" /\ Right(word) THEN @ + 1 ELSE 0]
  /\ UNCHANGED <<vars, transformations, refused>>

\* What is answered to a command that reads; one that is unknown is answered with
\* what rta happened to hold.  "max" is looked for inside the branch of "help".
Told(word) ==
  CASE word = "historico" -> historic_users
    [] word = "actual" -> current_users
    [] word = "bytes" -> transferred_bytes
    [] word = "mail" -> mails_sent
    [] word = "cant" -> MaxUsers

\* The commands that change something.
SetNewStatus(p, word) ==
  /\ LoggedIn(find_client(p))
  /\ word \in {"transon", "transoff"}
  /\ transformations' = (word = "transon")
  /\ UNCHANGED <<vars, clients, rights, refused>>

-----------------------------------------------------------------------------
Refuses == historic_users' # historic_users /\ Open' = Open

SmtpStep ==
  /\ Next
  /\ refused' = refused + (IF Refuses THEN 1 ELSE 0)
  /\ UNCHANGED <<clients, transformations, rights>>

SupervisionNext ==
  \/ \E p \in Peers, word \in Words : Authenticate(p, word) \/ SetNewStatus(p, word)
  \/ SmtpStep

SupervisionSpec == SupervisionInit /\ [][SupervisionNext]_allVars

-----------------------------------------------------------------------------
\* Every variable of the supervision has its type.
SupervisionTypeOK ==
  /\ clients \in [Peers -> ClientStates]
  /\ transformations \in BOOLEAN
  /\ rights \in [Peers -> 0..2]
  /\ refused \in Nat

\* Whatever datagrams were lost or repeated and whoever else spoke in between, a peer
\* is logged in when and only when two right words in a row came from it, not counting
\* the datagram that made it known.
LoggedInByTwoWords == \A p \in Peers : LoggedIn(p) <=> rights[p] = 2

\* "actual" is the number of connections open and of those the selector refused, which
\* were counted and are never counted out, and stays within "historico".
ToldUsers ==
  /\ Told("actual") = Cardinality(Open) + refused
  /\ Told("actual") <= Told("historico")

\* "bytes" takes every failed recv for a byte less: it can be negative, but by one
\* for each connection that is over at the most.
ToldBytes == 0 <= Told("bytes") + Told("historico") - Cardinality(Open)
=============================================================================
