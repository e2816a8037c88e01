--------------------------- MODULE ConnectionLease ---------------------------
(***************************************************************************)
(* What the pool of rpc_client.py promises its callers, without the lists, *)
(* the lock and the steps of rpc(): a connection is created for one        *)
(* client, leased to one client at a time, comes back only from the client *)
(* that holds it, and once it is given up nobody gets it again.            *)
(***************************************************************************)
EXTENDS FiniteSets

CONSTANTS
  Clients,   \* the threads
  Conns,     \* identities of connections
  NoConn

VARIABLES
  made,   \* the connections created so far
  idle,   \* those on offer
  lease   \* the connection each client holds, or NoConn

vars == <<made, idle, lease>>

Init ==
  /\ \E c \in Conns : made = {c} /\ idle = {c}
  /\ lease = [t \in Clients |-> NoConn]

Leased == {lease[t] : t \in Clients} \ {NoConn}

(* A client without a connection gets a new one ...                        *)
Make(t) ==
  /\ lease[t] = NoConn
  /\ \E c \in Conns \ made :
       made' = made \union {c} /\ lease' = [lease EXCEPT ![t] = c]
  /\ UNCHANGED idle

(* ... or one that is on offer and that nobody holds.                      *)
Take(t) ==
  /\ lease[t] = NoConn
  /\ \E c \in idle \ Leased :
       idle' = idle \ {c} /\ lease' = [lease EXCEPT ![t] = c]
  /\ UNCHANGED made

(* The holder offers its connection again ...                              *)
Give(t) ==
  /\ lease[t] # NoConn
  /\ idle' = idle \union {lease[t]}
  /\ lease' = [lease EXCEPT ![t] = NoConn]
  /\ UNCHANGED made

(* ... or gives it up.                                                     *)
Drop(t) ==
  /\ lease[t] # NoConn
  /\ lease' = [lease EXCEPT ![t] = NoConn]
  /\ UNCHANGED <<made, idle>>

(* Termination withdraws the offer of all idle connections.                *)
Withdraw == idle' = {} /\ UNCHANGED <<made, lease>>

Next == Withdraw \/ \E t \in Clients : Make(t) \/ Take(t) \/ Give(t) \/ Drop(t)

Spec == Init /\ [][Next]_vars
=============================================================================
