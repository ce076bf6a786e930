---------------------------- MODULE MCPageCache -----------------------------
(* Small instances of PageCache: which pages and flags programs use. *)
EXTENDS PageCache

AllPages     == VPages
AllButPage0  == VPages \ {0}
AllFlags     == Flags
NotProtected == {mf \in Flags : ~ mf.protect} \cup {Vacant}
=============================================================================
