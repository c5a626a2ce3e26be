--------------------------- MODULE MCMemoryBundle ---------------------------
(***************************************************************************)
(* MemoryBundle with the files of TypedDictionaryFiles, in the orders of   *)
(* its write_all_from_bufs, map_all and copy_from.                         *)
(***************************************************************************)
EXTENDS MemoryBundle

MCFile       == {"types_present", "type_offsets", "offsets", "blocks"}
MCWriteOrder == <<"types_present", "type_offsets", "offsets", "blocks">>
MCMapOrder   == <<"types_present", "type_offsets", "offsets", "blocks">>
MCCopyOrder  == <<"types_present", "type_offsets", "blocks", "offsets">>
=============================================================================
