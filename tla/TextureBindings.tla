---------------------------- MODULE TextureBindings ----------------------------
(***************************************************************************)
(* Texture2D and its kinds on the context, and the context's cache of what   *)
(* it bound, by which Unbind finds the places of a view.  Direct3D takes     *)
(* bindings away on its own and does not tell the cache.                     *)
(*                                                                         *)
(* A texture has default views and views of single mips.  A texture that is  *)
(* destroyed stays bound, for the device holds its views; the address of a   *)
(* view is used again only when nothing is bound of it, which is why a        *)
(* texture may stand for its successors.                                    *)
(***************************************************************************)
EXTENDS GraphicsDeviceContext

CONSTANTS
  Textures,   \* textures with unordered access
  Targets,    \* render targets
  DepthBuffers,
  Mips,       \* bound: mip levels, from 0
  ViewSlots,  \* bound: slots of a stage
  All         \* ~0u: no mip in particular

\* What the instances assume of the constants: a texture is of one kind, and None is no view.
TexturesAssumption ==
  /\ Textures \cap (Targets \cup DepthBuffers) = {}
  /\ All \notin Mips
  /\ None \notin [of : Textures \cup Targets \cup DepthBuffers, covers : {{0}, Mips} \cup {{m} : m \in Mips},
                mip : Mips \cup {All}]

VARIABLES
  device,  \* what is bound: place -> view
  cached   \* _boundShaderResourceViews, _boundUnorderedAccessViews, ...

textureVars == <<device, cached>>

ViewPlaces ==
  {ShaderResource("Pixel", slot) : slot \in ViewSlots}
    \cup {Unordered(slot) : slot \in ViewSlots} \cup {RenderTarget, DepthStencil}

TexturesInit ==
  /\ device = [p \in ViewPlaces |-> None]
  /\ cached = [p \in ViewPlaces |-> None]

-------------------------------------------------------------------------------
(***************************************************************************)
(* Views.  A default view for writing is of the first mip, one for reading   *)
(* of them all.                                                             *)
(***************************************************************************)

Key(view, mip) == [of |-> view.of, covers |-> view.covers, mip |-> mip]

ResourceView(t, mip) ==
  Key(View(t, IF mip = All THEN Mips ELSE {mip}), mip)

UnorderedView(t, mip) == Key(View(t, IF mip = All THEN {0} ELSE {mip}), mip)

TargetView(t) == Key(View(t, {0}), All)

\* Mutant: the default view of a texture is not one of each of its mips.
ReleasesSameMip(t, mip, view) ==
  /\ view # None
  /\ view.of = t
  /\ mip = All \/ view.mip = mip

\* The views of t that an Unbind for one mip releases: "if (key.Mip != ~0u && mip !=
\* ~0u && key.Mip != mip) continue".
Releases(t, mip, view) ==
  /\ view # None
  /\ view.of = t
  /\ view.mip = All \/ mip = All \/ view.mip = mip

-------------------------------------------------------------------------------
(***************************************************************************)
(* GraphicsDeviceContext, on a pair of device and cache.                     *)
(***************************************************************************)

Context == [device |-> device, cached |-> cached]

BindView(c, place, view) ==
  [device |-> Bound(c.device, place, view), cached |-> [c.cached EXCEPT ![place] = view]]

\* OMSetRenderTargets sets both.
BindOutputs(c, color, depth) ==
  BindView(BindView(c, RenderTarget, color), DepthStencil, depth)

\* UnbindShaderResourceView, UnbindUnorderedAccessView: places whose cached view t
\* releases.
Unbound(c, kind, t, mip) ==
  LET freed == {p \in ViewPlaces : p.kind = kind /\ Releases(t, mip, c.cached[p])}
  IN  [device |-> [p \in ViewPlaces |-> IF p \in freed THEN None ELSE c.device[p]],
       cached |-> [p \in ViewPlaces |-> IF p \in freed THEN None ELSE c.cached[p]]]

\* UnbindRenderTargetView, UnbindDepthStencilView: what the cache has left is set
\* again.
UnboundOutput(c, t) ==
  LET left(p) == IF Releases(t, All, c.cached[p]) THEN None ELSE c.cached[p]
  IN  IF left(RenderTarget) = c.cached[RenderTarget]
           /\ left(DepthStencil) = c.cached[DepthStencil]
        THEN c
        ELSE BindOutputs(c, left(RenderTarget), left(DepthStencil))

\* Unbind, with RenderTarget2D's and DepthStencil2D's.
UnboundAll(c, t) ==
  UnboundOutput(Unbound(Unbound(c, "srv", t, All), "uav", t, All), t)

Becomes(c) == device' = c.device /\ cached' = c.cached

-------------------------------------------------------------------------------
(***************************************************************************)
(* Texture2D, RenderTarget2D, DepthStencil2D, RenderTargetWithDepthStencil2D. *)
(***************************************************************************)

Bindable == Textures \cup Targets \cup DepthBuffers

BoundForReading(t, slot, mip) ==
  BindView(Unbound(Context, "uav", t, mip), ShaderResource("Pixel", slot),
           ResourceView(t, mip))

BindShaderResourceView(t, slot, mip) == Becomes(BoundForReading(t, slot, mip))

UnbindShaderResourceView(t, mip) == Becomes(Unbound(Context, "srv", t, mip))

BoundForWriting(t, slot, mip) ==
  BindView(Unbound(Context, "srv", t, mip), Unordered(slot), UnorderedView(t, mip))

BindUnorderedAccessView(t, slot, mip) == Becomes(BoundForWriting(t, slot, mip))

UnbindUnorderedAccessView(t, mip) == Becomes(Unbound(Context, "uav", t, mip))

Unbind(t) == Becomes(UnboundAll(Context, t))

BindRenderTargetView(t) == Becomes(BindOutputs(UnboundAll(Context, t), TargetView(t), None))

BindDepthStencilView(t) == Becomes(BindOutputs(UnboundAll(Context, t), None, TargetView(t)))

SetAsRenderTarget(t, depth) ==
  Becomes(BindOutputs(Context, TargetView(t), TargetView(depth)))

\* The rest of Copy, and Update and Clear, leave bindings alone.
Copy(source, target) ==
  /\ source # target
  /\ Becomes(UnboundAll(UnboundAll(Context, source), target))

TexturesNext ==
  \/ \E t \in Bindable, slot \in ViewSlots, mip \in Mips \cup {All} :
       BindShaderResourceView(t, slot, mip)
  \/ \E t \in Textures, slot \in ViewSlots, mip \in Mips \cup {All} :
       BindUnorderedAccessView(t, slot, mip)
  \/ \E t \in Bindable, mip \in Mips \cup {All} : UnbindShaderResourceView(t, mip)
  \/ \E t \in Textures, mip \in Mips \cup {All} : UnbindUnorderedAccessView(t, mip)
  \/ \E t \in Bindable : Unbind(t)
  \/ \E t \in Targets : BindRenderTargetView(t)
  \/ \E t \in DepthBuffers : BindDepthStencilView(t)
  \/ \E t \in Targets, depth \in DepthBuffers : SetAsRenderTarget(t, depth)
  \/ \E source, target \in Bindable : Copy(source, target)

TexturesSpec == TexturesInit /\ [][TexturesNext]_textureVars

-------------------------------------------------------------------------------
(***************************************************************************)
(* Properties.                                                              *)
(***************************************************************************)

\* "The context's binding cache makes 'unbind whatever I bound earlier' reliable":
\* after Unbind, and so before every copy and update, nothing of the texture is
\* bound anywhere, whatever Direct3D took away before.
UnbindReleases ==
  \A t \in Bindable :
    LET unbound == UnboundAll(Context, t).device
    IN  \A p \in ViewPlaces : unbound[p] # None => unbound[p].of # t

\* A texture bound for reading, or for writing, is bound: what it was bound for
\* before is released first, also where it is another view of some of its mips.
\* Of a target that is still an output, Direct3D refuses to bind a resource view.
BindTakesEffect ==
  \A t \in Textures, slot \in ViewSlots, mip \in Mips \cup {All} :
    /\ BoundForReading(t, slot, mip).device[ShaderResource("Pixel", slot)]
         = ResourceView(t, mip)
    /\ BoundForWriting(t, slot, mip).device[Unordered(slot)] = UnorderedView(t, mip)

\* The cache tells enough, though the device takes bindings away without telling it.
CacheSuffices == UnbindReleases /\ BindTakesEffect

===============================================================================
