--------------------------- MODULE MCDesktopTabs ----------------------------
EXTENDS DesktopTabs, TLC

CONSTANTS w1, w2

(* Two pages in one workspace and the default page of another.             *)
ThreePages == {[slug |-> w1, page |-> "issues"], [slug |-> w1, page |-> "inbox"],
               [slug |-> w2, page |-> "issues"]}

(* Ids are alike: NewId takes one of those no tab has.                     *)
IdSymmetry == Permutations(Ids)
=============================================================================
