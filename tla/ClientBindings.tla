---------------------------- MODULE ClientBindings ----------------------------
(***************************************************************************)
(* What RendererManager::_clients promises callers that do not race: a      *)
(* client address that no configuration was found for is bound, once and    *)
(* for good, to the renderer created for it, and no two bound addresses are *)
(* the same to the comparator.  To callers that race it promises nothing.   *)
(***************************************************************************)
EXTENDS SocketAddresses

CONSTANT Renderer   \* the renderers that may be created

VARIABLES
  bound,            \* from the bound addresses to the renderers created for them
  misused           \* two callers have raced

Init == bound = [a \in {} |-> 0] /\ misused = FALSE

\* Binds a to the renderer r, which is bound to no other address.
Bind(a, r) ==
  /\ ~misused /\ UNCHANGED misused
  /\ \A b \in DOMAIN bound : ~Equivalent(a, b) /\ bound[b] # r
  /\ bound' = [b \in DOMAIN bound \union {a} |-> IF b = a THEN r ELSE bound[b]]

\* Callers race, now or before: the map may be anything.
Misuse == misused' = TRUE

Next == (\E a \in Address, r \in Renderer : Bind(a, r)) \/ Misuse

Spec == Init /\ [][Next]_<<bound, misused>>
=============================================================================
