--------------------------- MODULE PoolRefinement ---------------------------
(***************************************************************************)
(* ConnectionPoolImpl implements BoundedPool.  A slot being opened still   *)
(* counts as unopened: the opener holds conn_mutex_, so nobody can tell.   *)
(* A connection on its way back still belongs to the thread that returns   *)
(* it until pushConnection puts it in the list.                            *)
(***************************************************************************)
EXTENDS ConnectionPoolImpl

Promise == INSTANCE BoundedPool WITH
  Clients <- Threads,
  Capacity <- PoolSize,
  idle <- Idle,
  owns <- [t \in Threads |-> OwnedBy(t)],
  unopened <- UnopenedSlots + SlotBeingOpened

\* Every step of the monitor is a step the pool promises, or is invisible to
\* its clients: the list, the lock and the condition of popConnection and
\* pushConnection add up to an exclusive, lazy, bounded allocator.
ImplementsBoundedPool == Promise!AbsSpec
=============================================================================
