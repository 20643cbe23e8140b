--------------------------- MODULE QuoteCollection ---------------------------
(***************************************************************************)
(* What the workflow relies on when it asks for quotes: the collection     *)
(* happens at once, after it there is a quote of some of the suppliers     *)
(* that sell the product, and every one was made in the present life of    *)
(* the process.  RequestQuotes of ProcurementGraph is this step.           *)
(***************************************************************************)
EXTENDS Naturals

CONSTANTS
  Sellers,   \* suppliers with the product in their catalog
  MaxLives,  \* bound: runs of the buyer's process
  None       \* nothing collected yet

VARIABLES
  life,   \* the number of the current run of the process
  batch   \* the collected quotes

collectionVars == <<life, batch>>

Init == life = 1 /\ batch = None

Collect(answered) ==
  /\ batch = None
  /\ batch' = [supplier : answered, life : {life}]
  /\ UNCHANGED life

\* The process restarts and the deal, still a draft, is processed again.
StartAgain ==
  /\ life < MaxLives
  /\ life' = life + 1
  /\ batch' = None

Next == (\E answered \in SUBSET Sellers : Collect(answered)) \/ StartAgain

Spec == Init /\ [][Next]_collectionVars
=============================================================================
