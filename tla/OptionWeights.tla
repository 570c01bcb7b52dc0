--------------------------- MODULE OptionWeights ---------------------------
(***************************************************************************)
(* src/scoring/option_weights.py: the curated value of each option of the  *)
(* questions whose labels the text patterns misread, in hundredths, by the *)
(* option's place in the question.  1.0 is the best signal and 0.0 the     *)
(* worst, "don't know" is 0.75 and a neutral option 0.5.                   *)
(*                                                                         *)
(* Three entries of the file are not here, for no lookup can reach them:   *)
(* T1-F-003 and T1-F-004 are no questions of the bank, and T1-F-002 is a   *)
(* matrix, whose scorer takes no option weights.                           *)
(***************************************************************************)
EXTENDS Integers, Sequences

W(section, number, weights) == [id |-> <<section, number>>, weights |-> weights]

Weights1 == {
  W("B", 8, <<100, 0, 75>>), W("B", 13, <<0, 25, 100, 75, 50>>),
  W("B", 23, <<100, 100, 100, 25, 75>>), W("C", 5, <<0, 25, 100, 75>>),
  W("C", 13, <<100, 50, 0, 75>>), W("C", 14, <<100, 25, 75, 75>>),
  W("D", 7, <<0, 100, 75, 0>>), W("D", 8, <<100, 25, 75>>),
  W("D", 9, <<0, 20, 40, 75, 100, 50>>), W("D", 10, <<100, 75, 50, 25, 0, 75>>),
  W("D", 12, <<0, 25, 100, 75>>), W("D", 13, <<0, 100, 75>>),
  W("D", 14, <<0, 25, 50, 75, 100>>), W("D", 15, <<100, 50, 0, 75>>),
  W("D", 16, <<100, 0, 75>>), W("D", 17, <<100, 50, 0, 75>>),
  W("D", 18, <<100, 60, 40, 0, 75>>) }

Weights2 == {
  W("E", 3, <<100, 50, 0, 75>>), W("E", 4, <<0, 25, 100, 75>>),
  W("E", 5, <<100, 0, 50, 75>>), W("E", 6, <<100, 50, 0, 75>>),
  W("E", 7, <<100, 0, 75>>), W("E", 8, <<100, 0, 75>>), W("E", 12, <<0, 100, 75>>),
  W("E", 14, <<0, 10, 100, 75>>), W("E", 17, <<0, 100, 75>>),
  W("E", 20, <<100, 50, 0, 75>>), W("E", 22, <<100, 0, 75>>),
  W("F", 6, <<100, 60, 0, 75>>), W("F", 9, <<100, 70, 0, 75>>),
  W("G", 2, <<100, 0, 50, 75>>), W("G", 6, <<0, 100, 75>>),
  W("G", 8, <<0, 20, 40, 75, 100, 50>>), W("G", 9, <<0, 25, 50, 75, 100>>),
  W("G", 10, <<0, 25, 50, 75, 100>>), W("G", 11, <<0, 25, 50, 75, 100>>),
  W("G", 12, <<0, 25, 50, 75, 100>>) }

Weights3 == {
  W("B", 1, <<100, 40, 0, 75>>), W("B", 3, <<100, 75, 40, 10, 75>>),
  W("B", 4, <<100, 75, 50, 0, 75>>), W("B", 7, <<100, 75, 50, 25, 0, 75>>),
  W("B", 24, <<100, 40, 0, 75>>), W("F", 1, <<100, 50, 25, 0, 75>>),
  W("F", 8, <<100, 40, 0, 75>>), W("F", 11, <<100, 40, 0, 75>>),
  W("E", 31, <<100, 70, 35, 0, 75, 50>>), W("E", 32, <<100, 50, 15, 0, 75>>),
  W("E", 33, <<100, 55, 30, 0, 75, 50>>), W("F", 26, <<100, 65, 30, 0, 75>>) }

Weights4 == {
  W("F", 27, <<100, 50, 25, 0, 75, 50>>), W("F", 28, <<100, 50, 25, 0, 75>>),
  W("F", 29, <<100, 50, 25, 0, 75>>), W("F", 30, <<100, 50, 25, 0, 75>>),
  W("F", 31, <<100, 60, 40, 20, 0, 75>>) }

OptionWeightMaps == Weights1 \cup Weights2 \cup Weights3 \cup Weights4

\* get_option_weight: the map of one question, or <<>> when it has none.
WeightsOf(id) ==
  IF \E w \in OptionWeightMaps : w.id = id
  THEN (CHOOSE w \in OptionWeightMaps : w.id = id).weights
  ELSE <<>>
=============================================================================
