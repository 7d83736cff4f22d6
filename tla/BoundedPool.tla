----------------------------- MODULE BoundedPool -----------------------------
(***************************************************************************)
(* What a connection pool promises its clients, without threads, locks or  *)
(* lists: at most Capacity connections exist, a client owns the ones it    *)
(* took and nobody else does, a new one is opened only when no open one is *)
(* free, and an attempt to open one may fail and cost the pool its place.  *)
(***************************************************************************)
EXTENDS Naturals

CONSTANTS
  Clients,   \* who takes connections
  Capacity   \* how many connections may ever be opened

VARIABLES
  idle,      \* the open connections nobody owns
  owns,      \* the connections of each client
  opened,    \* how many connections were opened; the last is number opened
  unopened   \* how many more may be opened

absVars == <<idle, owns, opened, unopened>>

AbsInit ==
  /\ idle = {}
  /\ owns = [t \in Clients |-> {}]
  /\ opened = 0
  /\ unopened = Capacity

\* A client takes an open connection; which one is not promised.
Reuse(t, c) ==
  /\ c \in idle
  /\ idle' = idle \ {c}
  /\ owns' = [owns EXCEPT ![t] = @ \cup {c}]
  /\ UNCHANGED <<opened, unopened>>

\* No connection is free: a client gets a new one.
Open(t) ==
  /\ idle = {}
  /\ unopened > 0
  /\ opened' = opened + 1
  /\ unopened' = unopened - 1
  /\ owns' = [owns EXCEPT ![t] = @ \cup {opened + 1}]
  /\ UNCHANGED idle

\* The same, but the database refuses, and the place is gone.
OpenFails ==
  /\ idle = {}
  /\ unopened > 0
  /\ unopened' = unopened - 1
  /\ UNCHANGED <<idle, owns, opened>>

\* A client gives a connection back.
Release(t, c) ==
  /\ c \in owns[t]
  /\ owns' = [owns EXCEPT ![t] = @ \ {c}]
  /\ idle' = idle \cup {c}
  /\ UNCHANGED <<opened, unopened>>

\* A client passes a connection on to another.
Give(t, u, c) ==
  /\ t # u
  /\ c \in owns[t]
  /\ owns' = [owns EXCEPT ![t] = @ \ {c}, ![u] = @ \cup {c}]
  /\ UNCHANGED <<idle, opened, unopened>>

AbsNext ==
  \/ OpenFails
  \/ \E t \in Clients :
       \/ Open(t)
       \/ \E c \in idle : Reuse(t, c)
       \/ \E c \in owns[t] : Release(t, c)
       \/ \E u \in Clients, c \in owns[t] : Give(t, u, c)

AbsSpec == AbsInit /\ [][AbsNext]_absVars
=============================================================================
