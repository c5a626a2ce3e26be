---------------------------- MODULE MCTypedDict ----------------------------
(* A dictionary of two string-like types around one of records of two      *)
(* bytes, over two byte values.                                            *)
EXTENDS TypedDict

MCRecordSize == <<0, 2, 0>>
MCValuesOf(t) ==
  CASE t = 1 -> {<<>>, <<0>>, <<0, 0>>, <<0, 0, 1>>, <<0, 1>>, <<0, 1, 0>>, <<1>>}
    [] t = 2 -> {<<0, 0>>, <<0, 1>>, <<1, 1>>}
    [] OTHER -> {<<0>>, <<1, 0>>}

\* What may be looked up: every value, and some that no dictionary has.
MCQueries(t) == MCValuesOf(t) \union {<<0, 0, 0>>, <<1, 0, 1>>, <<1, 1, 1>>}
=============================================================================
