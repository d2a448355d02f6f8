----------------------------- MODULE PoolSlots -----------------------------
(***************************************************************************)
(* How the slots of a pool are given to the providers: the constructors of *)
(* NntpPool (services/usenet/downloadEngine.ts) and MountedNntpPool        *)
(* (services/mountedStream.service.ts), which are the same.                *)
(***************************************************************************)
EXTENDS Integers, SequencesExt, FiniteSetsExt

\* The provider of each slot: in the given order each provider gets its
\* connections, or what is left of the maximum, but at least one slot.
SlotsOf(providers, connections, maximum) ==
  FoldLeft(LAMBDA slots, p :
             IF slots # <<>> /\ Len(slots) >= maximum THEN slots
             ELSE slots \o [i \in 1..Max({1, Min({connections[p], maximum - Len(slots)})}) |-> p],
           <<>>, providers)
=============================================================================
