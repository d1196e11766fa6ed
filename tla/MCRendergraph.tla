--------------------------- MODULE MCRendergraph ---------------------------
(***************************************************************************)
(* The editor's wiring around one viewport: an ImGui host that renders     *)
(* into a texture in the scene (panel), a view of the scene (view), two    *)
(* windows that show the view (first, second).  The panel is rendered      *)
(* before the view and both windows (hotbar.cpp:421,                       *)
(* scene_commands.cpp:357): three consumers under one key.  Both windows   *)
(* ask for the view's only viewport output: one of them connects half way. *)
(* The first window is also shown on the panel (scene_builder.cpp:238):    *)
(* with the other wires that is a cycle.                                   *)
(***************************************************************************)
EXTENDS Rendergraph, TLC

CONSTANTS panel, view, first, second

MCNode == {panel, view, first, second}
MCKey == {"window", "viewport", "rendertarget_texture"}

Keys(none, byConsumer, byProducer) ==
  [k \in MCKey |-> IF k \in none THEN "none"
                   ELSE IF k \in byConsumer THEN "by_consumer"
                   ELSE IF k \in byProducer THEN "by_producer"
                   ELSE Unregistered]

Window == Keys({}, {"viewport"}, {"rendertarget_texture"})
MCInputRouting ==
  (panel :> Keys({"window"}, {}, {})) @@ (view :> Keys({}, {}, {"rendertarget_texture"}))
    @@ (first :> Window) @@ (second :> Window)

MCOutputRouting ==
  (panel :> Keys({}, {}, {"rendertarget_texture"})) @@ (view :> Keys({}, {"viewport"}, {}))
    @@ (first :> Keys({"window"}, {}, {})) @@ (second :> Keys({"window"}, {}, {}))

MCWires ==
  {<<"rendertarget_texture", panel, n>> : n \in {view, first, second}}
    \union {<<"viewport", view, first>>, <<"viewport", view, second>>,
            <<"window", first, panel>>}
=============================================================================
