----------------------------- MODULE BindingsMC -----------------------------
(***************************************************************************)
(* Instances of Bindings for TLC: the nine classes of javafs_bindings.c,   *)
(* in the order of alloc_classes,                                          *)
(*   1 FuseGetattr   2 FuseFSDirEnt  3 FuseFSDirFiller                     *)
(*   4 FuseStatfs    5 FuseOpen      6 FuseSize                            *)
(*   7 FuseContext   8 ByteBuffer    9 FuseFS                              *)
(***************************************************************************)
EXTENDS Bindings, ClassTables

\* The classpath of the project.  Of the names in the bindings it has
\* fuse.FuseStatfs, whose constructor now takes arguments and which has no
\* method set, fuse.FuseContext, and java.nio.ByteBuffer of the class library;
\* the other six are no longer defined.
ShippedFound == {4, 7, 8}
ShippedDeclared == [BindingSlots EXCEPT ![4] = @ \ {"new", "set__IIIIIII"}]
ShippedClasses == {7, 8}

\* A classpath on which every class of the bindings is found, with the
\* members they were generated from.
AllClasses == 1..9

\* Two classes with one slot and with two.
TwoClasses == {1, 2}
TwoLookups == <<<<"new">>, <<"size", "new">>>>
TwoSlots == <<{"new"}, {"size", "new"}>>

=============================================================================
