--------------------------- MODULE MCCaptionStore ---------------------------
(***************************************************************************)
(* Two motions.  "edited" changes a text, "shifted" leaves the number of   *)
(* keys and moves one to the other motion, "irregular" lists a caption     *)
(* before the primary one and holds a blacklisted one.                     *)
(***************************************************************************)
EXTENDS CaptionStore

None == [primary |-> "", captions |-> <<>>]

mc_Texts ==
  [plain     |-> <<[primary |-> "a fox runs", captions |-> <<"a fox runs", "the animal runs">>],
                   [primary |-> "a cat sits", captions |-> <<"a cat sits">>]>>,
   edited    |-> <<[primary |-> "a fox runs", captions |-> <<"a fox runs", "a red fox runs">>],
                   [primary |-> "a cat sits", captions |-> <<"a cat sits">>]>>,
   shifted   |-> <<None,
                   [primary |-> "a cat sits", captions |-> <<"a cat rests", "", "an animal rests">>]>>,
   irregular |-> <<[primary |-> "a fox runs", captions |-> <<"N", "the animal runs", "a fox runs">>],
                   [primary |-> "a cat sits", captions |-> <<"a cat sits">>]>>]

mc_NameOf ==
  [plain |-> "drafts", edited |-> "drafts", shifted |-> "drafts", irregular |-> "clean"]
=============================================================================
