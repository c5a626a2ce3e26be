--------------------------- MODULE EncodedEntries ---------------------------
(***************************************************************************)
(* Values of one type that become entries of a block, in the order of      *)
(* their bytes, which is what the builders of dictionaries ask for; and    *)
(* the two codes of numbers that are not entries by themselves, VByte and  *)
(* the size in front of a BigInt, which encode one number at a time.       *)
(***************************************************************************)
EXTENDS Lexical

CONSTANT Values     \* the values met of each kind

Codes == {"vbyte", "size"}
Kinds == DataTypes \union Codes

ASSUME ValuesAssumption == DOMAIN Values \subseteq Kinds

VARIABLES
  kind,      \* the type of all the values, or one of the two codes
  values,    \* the values encoded so far
  block      \* the block of their entries

entryVars == <<kind, values, block>>

Code(k, n) == IF k = "vbyte" THEN EncodeVec(n) ELSE SizeEncode(n)

Init == kind \in DOMAIN Values /\ values = <<>> /\ block = <<>>

\* TdbDataType::make_entry, and the builder taking the entry.
Make(v) ==
  LET lexical == ToLexical(kind, v)
      entries == [i \in DOMAIN values |-> ToLexical(kind, values[i])]
  IN  /\ kind \in DataTypes
      /\ Len(values) < BlockSize
      /\ \A i \in DOMAIN entries : Ordering(entries[i], lexical) # "Greater"
      /\ values' = Append(values, v)
      /\ block' = BuildBlock(RecordSizeOf(kind), Append(entries, lexical))
      /\ UNCHANGED kind

Encode(n) ==
  /\ kind \in Codes /\ values = <<>>
  /\ values' = <<n>>
  /\ UNCHANGED <<kind, block>>

Next == \E v \in Values[kind] : Make(v) \/ Encode(v)

Spec == Init /\ [][Next]_entryVars
=============================================================================
