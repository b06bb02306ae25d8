---------------------------- MODULE MCRenderLoop ----------------------------
(* Small instances of RenderLoop. *)
EXTENDS RenderLoop, TLC

CONSTANTS c1, c2, a, b

(* Two goroutines of one module contend for its buffers. *)
MCOwnerShared == (c1 :> 1) @@ (c2 :> 1)

(* Two modules with one goroutine each. *)
MCOwner == (c1 :> 1) @@ (c2 :> 2)

(* An empty frame, which leaves no trace on the line, and a frame of two
   blocks, which has a comma of its own. *)
MCFrames == {<< >>, <<a, b>>}

(* And a frame that the other can be mistaken for when two goroutines share
   a back buffer. *)
MCFrames3 == {<< >>, <<a>>, <<b, a>>}

=============================================================================
