------------------------- MODULE GraphicsDeviceContext -------------------------
(***************************************************************************)
(* What is bound to the stages of the immediate context, and what Direct3D  *)
(* does to the rest of it when something is bound: a subresource is never    *)
(* written and read at once.  A view that would read what is bound for       *)
(* writing is not bound at all; a view that writes takes the subresource     *)
(* away from wherever else it is bound.                                     *)
(***************************************************************************)
EXTENDS Naturals

CONSTANT None  \* nothing bound

Place == [kind : {"srv", "uav", "rtv", "dsv", "constants", "state"},
          stage : STRING, slot : Nat]

ShaderResource(stage, slot) == [kind |-> "srv", stage |-> stage, slot |-> slot]
Unordered(slot)             == [kind |-> "uav", stage |-> "Compute", slot |-> slot]
Constants(stage, slot)      == [kind |-> "constants", stage |-> stage, slot |-> slot]
State(name)                 == [kind |-> "state", stage |-> name, slot |-> 0]
RenderTarget                == [kind |-> "rtv", stage |-> "Output", slot |-> 0]
DepthStencil                == [kind |-> "dsv", stage |-> "Output", slot |-> 0]

Writers == {"uav", "rtv", "dsv"}
Tracked == {"srv"} \cup Writers

\* A view is of a resource and covers some of its subresources.
View(of, covers) == [of |-> of, covers |-> covers]

Overlap(v, w) ==
  /\ v # None /\ w # None
  /\ v.of = w.of
  /\ v.covers \cap w.covers # {}

\* Set...Resources, Set...Views, Set...Buffers of the device context.
Bound(bound, place, view) ==
  LET conflicts(p) == /\ p # place /\ p.kind \in Tracked
                      /\ "srv" \notin {p.kind} \cap {place.kind}
                      /\ Overlap(bound[p], view)
      refused == place.kind = "srv" /\ \E p \in DOMAIN bound : conflicts(p)
  IN  IF place.kind \notin Tracked THEN [bound EXCEPT ![place] = view]
      ELSE IF refused THEN [bound EXCEPT ![place] = None]
      ELSE [p \in DOMAIN bound |->
              IF p = place THEN view
              ELSE IF place.kind \in Writers /\ conflicts(p) THEN None
              ELSE bound[p]]

===============================================================================
