---------------------------- MODULE FileHandlesMC ----------------------------
(***************************************************************************)
(* Instances of FileHandles for TLC.                                       *)
(***************************************************************************)
EXTENDS FileHandles

\* NewGlobalRef never wants for a slot: the JVM's table grows.
ASSUME SlotsAssumption == Cardinality(Slots) >= Cardinality(Files)

=============================================================================
