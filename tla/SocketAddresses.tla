--------------------------- MODULE SocketAddresses ---------------------------
(***************************************************************************)
(* The order RendererManager keeps its clients in.  SocketAddressComparator *)
(* (Renderers/manager.hpp) orders two addresses only when the IP address    *)
(* AND the port of the one are below those of the other, and std::map       *)
(* searches its tree with nothing but this comparator.  A map is the        *)
(* in-order sequence of its nodes; a node is a record with a field "key".   *)
(***************************************************************************)
EXTENDS Integers, Sequences, SequencesExt

CONSTANTS IpAddress,  \* the IP addresses clients connect from, as AsLong() gives them
          Port        \* the ports they connect from

ASSUME AddressAssumption == IpAddress \subseteq Nat /\ Port \subseteq Nat

Address == [ip : IpAddress, port : Port]

\* Mutant: one coordinate is enough.
LessInEither(a, b) == a.ip < b.ip \/ a.port < b.port

\* SocketAddressComparator::operator()(a, b)
Less(a, b) == a.ip < b.ip /\ a.port < b.port

\* What std::map takes for "the same key": neither is below the other.
Equivalent(a, b) == ~Less(a, b) /\ ~Less(b, a)

(***************************************************************************)
(* A descent from the root ends between two positions l < r of the in-order *)
(* sequence such that it last turned right at l (whose key is below k, or   *)
(* l is before the first node) and last turned left at r (whose key is not  *)
(* below k, or r is past the last node).  Nothing else is known of it when  *)
(* the shape of the tree is not: which such pair it ends at depends on the  *)
(* order of the insertions that shaped the tree.                            *)
(***************************************************************************)
Descents(s, k) ==
  {g \in (0 .. Len(s)) \X (1 .. Len(s) + 1) :
     /\ g[1] < g[2]
     /\ g[1] # 0 => Less(s[g[1]].key, k)
     /\ g[2] # Len(s) + 1 => ~Less(s[g[2]].key, k)}

\* In a sound tree the two are neighbours, and r is what lower_bound(k) returns.
Gaps(s, k) == {g \in Descents(s, k) : g[2] = g[1] + 1}

\* find() and operator[] take the node at r for k's unless k is below its key.
Hit(s, k, g) == g[2] # Len(s) + 1 /\ ~Less(k, s[g[2]].key)

\* Each key below the next, and so below all that follow: strictly increasing
\* in IP address and in port at once.
IsChain(s) == \A i, j \in 1 .. Len(s) : i < j => Less(s[i].key, s[j].key)
=============================================================================
