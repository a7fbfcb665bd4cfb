------------------------------ MODULE MCThumbs ------------------------------
(* A tab that may have one pane or two, and an orphan card.                *)
EXTENDS Thumbs, TLC

CONSTANTS tab, orphan, s1, s2, s3

MCGrid == <<tab, orphan>>
MCOrphans == {orphan}
MCBlobs == (tab :> {<<s1>>, <<s1, s2>>}) @@ (orphan :> {<<s3>>})
MCGridOf == (s1 :> "half") @@ (s2 :> "half") @@ (s3 :> "full")
MCViews == {{tab}, {tab, orphan}}
=============================================================================
