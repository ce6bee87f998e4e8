----------------------------- MODULE ClassTables -----------------------------
(***************************************************************************)
(* The generated bindings, class by class: what each alloc_jclass_X of     *)
(* javafs_bindings.c looks up, in its order, and which slots the structure *)
(* of javafs_bindings.h has for the results.                               *)
(*                                                                         *)
(* A member is named by its slot, that is by its mangled Java name and     *)
(* signature.                                                              *)
(***************************************************************************)
EXTENDS Sequences

\* The methods of java.lang.Object as the generator lists them last.
ObjectTail ==
  <<"getClass", "wait__J", "wait__JI", "wait", "notify", "notifyAll">>

\* The same for a class that overrides none of them.
ObjectMethods ==
  <<"clone", "toString", "hashCode", "getClass", "wait__J", "wait__JI",
    "wait", "equals__Ljava_lang_Object_", "notify", "notifyAll">>

-----------------------------------------------------------------------------
(* The lookups of each alloc_jclass_X.                                     *)

FuseGetattrLookups ==
  <<"inode", "nlink", "uid", "gid", "rdev", "size", "blocks", "atime",
    "mtime", "ctime", "mode", "new", "set__JIIIIIJJIII">>
    \o ObjectMethods

FuseFSDirEntLookups ==
  <<"name", "inode", "mode", "new">>
    \o ObjectMethods

FuseFSDirFillerLookups ==
  <<"new", "setCharset__Ljava_nio_charset_Charset_",
    "add__Ljava_lang_String_JI", "toString", "add__Ljava_lang_Object_",
    "add__ILjava_lang_Object_", "indexOf__Ljava_lang_Object_", "clone",
    "clear", "contains__Ljava_lang_Object_",
    "lastIndexOf__Ljava_lang_Object_", "addAll__Ljava_util_Collection_",
    "addAll__ILjava_util_Collection_", "get__I", "size", "toArray",
    "toArray___Ljava_lang_Object_", "remove__I", "remove__Ljava_lang_Object_",
    "isEmpty", "set__ILjava_lang_Object_", "ensureCapacity__I", "trimToSize",
    "hashCode", "equals__Ljava_lang_Object_", "iterator", "subList__II",
    "listIterator", "listIterator__I", "containsAll__Ljava_util_Collection_",
    "removeAll__Ljava_util_Collection_", "retainAll__Ljava_util_Collection_">>
    \o ObjectTail

FuseStatfsLookups ==
  <<"blockSize", "blocks", "blocksFree", "blocksAvail", "files", "filesFree",
    "namelen", "new", "set__IIIIIII">>
    \o ObjectMethods

FuseOpenLookups ==
  <<"fh", "directIO", "keepCache", "new", "setFh__Ljava_lang_Object_",
    "isDirectIO", "setDirectIO__Z", "isKeepCache", "setKeepCache__Z">>
    \o ObjectMethods

FuseSizeLookups ==
  <<"size", "new", "setSize__I">>
    \o ObjectMethods

FuseContextLookups ==
  <<"uid", "gid", "pid", "get">>
    \o ObjectMethods

ByteBufferLookups ==
  <<"wrap___BII", "wrap___B", "allocate__I", "allocateDirect__I", "hashCode",
    "compareTo__Ljava_nio_ByteBuffer_", "compareTo__Ljava_lang_Object_",
    "getShort", "getShort__I", "getChar", "getChar__I", "getInt", "getInt__I",
    "getLong", "getLong__I", "getFloat", "getFloat__I", "getDouble",
    "getDouble__I", "putShort__S", "putShort__IS", "putChar__C",
    "putChar__IC", "putInt__I", "putInt__II", "putLong__J", "putLong__IJ",
    "putFloat__F", "putFloat__IF", "putDouble__D", "putDouble__ID", "put__B",
    "put__IB", "put__Ljava_nio_ByteBuffer_", "put___BII", "put___B",
    "equals__Ljava_lang_Object_", "toString", "get", "get__I", "get___BII",
    "get___B", "array", "arrayOffset", "hasArray", "isDirect", "asCharBuffer",
    "asDoubleBuffer", "asFloatBuffer", "asIntBuffer", "asLongBuffer",
    "asReadOnlyBuffer", "asShortBuffer", "compact", "duplicate", "order",
    "order__Ljava_nio_ByteOrder_", "slice", "limit", "limit__I", "clear",
    "position", "position__I", "remaining", "capacity", "flip",
    "hasRemaining", "isReadOnly", "mark", "reset", "rewind">>
    \o ObjectTail

FuseFSLookups ==
  <<"chown__Ljava_nio_ByteBuffer_II", "chmod__Ljava_nio_ByteBuffer_I",
    "symlink__Ljava_nio_ByteBuffer_Ljava_nio_ByteBuffer_",
    "getattr__Ljava_nio_ByteBuffer_Lfuse_FuseGetattrSetter_",
    "readlink__Ljava_nio_ByteBuffer_Ljava_nio_ByteBuffer_",
    "getdir__Ljava_nio_ByteBuffer_Lfuse_FuseFSDirFiller_",
    "mknod__Ljava_nio_ByteBuffer_II", "unlink__Ljava_nio_ByteBuffer_",
    "rmdir__Ljava_nio_ByteBuffer_", "utime__Ljava_nio_ByteBuffer_II",
    "statfs__Lfuse_FuseStatfsSetter_",
    "fsync__Ljava_nio_ByteBuffer_Ljava_lang_Object_Z",
    "setxattr__Ljava_nio_ByteBuffer_Ljava_nio_ByteBuffer_Ljava_nio_ByteBuffer_I",
    "getxattrsize__Ljava_nio_ByteBuffer_Ljava_nio_ByteBuffer_Lfuse_FuseSizeSetter_",
    "getxattr__Ljava_nio_ByteBuffer_Ljava_nio_ByteBuffer_Ljava_nio_ByteBuffer_",
    "listxattrsize__Ljava_nio_ByteBuffer_Lfuse_FuseSizeSetter_",
    "listxattr__Ljava_nio_ByteBuffer_Ljava_nio_ByteBuffer_",
    "removexattr__Ljava_nio_ByteBuffer_Ljava_nio_ByteBuffer_",
    "write__Ljava_nio_ByteBuffer_Ljava_lang_Object_ZLjava_nio_ByteBuffer_J",
    "flush__Ljava_nio_ByteBuffer_Ljava_lang_Object_",
    "read__Ljava_nio_ByteBuffer_Ljava_lang_Object_Ljava_nio_ByteBuffer_J",
    "open__Ljava_nio_ByteBuffer_ILfuse_FuseOpenSetter_",
    "mkdir__Ljava_nio_ByteBuffer_I",
    "rename__Ljava_nio_ByteBuffer_Ljava_nio_ByteBuffer_",
    "release__Ljava_nio_ByteBuffer_Ljava_lang_Object_I",
    "truncate__Ljava_nio_ByteBuffer_J",
    "link__Ljava_nio_ByteBuffer_Ljava_nio_ByteBuffer_">>

\* In the order of alloc_classes.
BindingLookups ==
  <<FuseGetattrLookups, FuseFSDirEntLookups, FuseFSDirFillerLookups,
    FuseStatfsLookups, FuseOpenLookups, FuseSizeLookups, FuseContextLookups,
    ByteBufferLookups, FuseFSLookups>>

-----------------------------------------------------------------------------
(* The slots of each structure.                                            *)

ObjectSlots ==
  {"clone", "toString", "hashCode", "getClass", "wait__J", "wait__JI",
   "wait", "equals__Ljava_lang_Object_", "notify", "notifyAll"}

FuseGetattrSlots ==
  {"inode", "nlink", "uid", "gid", "rdev", "size", "blocks", "atime",
    "mtime", "ctime", "mode", "new", "set__JIIIIIJJIII"}
    \cup ObjectSlots

FuseFSDirEntSlots ==
  {"name", "inode", "mode", "new"}
    \cup ObjectSlots

FuseFSDirFillerSlots ==
  {"new", "setCharset__Ljava_nio_charset_Charset_",
    "add__Ljava_lang_String_JI", "add__Ljava_lang_Object_",
    "add__ILjava_lang_Object_", "indexOf__Ljava_lang_Object_", "clear",
    "contains__Ljava_lang_Object_", "lastIndexOf__Ljava_lang_Object_",
    "addAll__Ljava_util_Collection_", "addAll__ILjava_util_Collection_",
    "get__I", "size", "toArray", "toArray___Ljava_lang_Object_", "remove__I",
    "remove__Ljava_lang_Object_", "isEmpty", "set__ILjava_lang_Object_",
    "ensureCapacity__I", "trimToSize", "iterator", "subList__II",
    "listIterator", "listIterator__I", "containsAll__Ljava_util_Collection_",
    "removeAll__Ljava_util_Collection_", "retainAll__Ljava_util_Collection_"}
    \cup ObjectSlots

FuseStatfsSlots ==
  {"blockSize", "blocks", "blocksFree", "blocksAvail", "files", "filesFree",
    "namelen", "new", "set__IIIIIII"}
    \cup ObjectSlots

FuseOpenSlots ==
  {"fh", "directIO", "keepCache", "new", "setFh__Ljava_lang_Object_",
    "isDirectIO", "setDirectIO__Z", "isKeepCache", "setKeepCache__Z"}
    \cup ObjectSlots

FuseSizeSlots ==
  {"size", "new", "setSize__I"}
    \cup ObjectSlots

FuseContextSlots ==
  {"uid", "gid", "pid", "get"}
    \cup ObjectSlots

ByteBufferSlots ==
  {"wrap___BII", "wrap___B", "allocate__I", "allocateDirect__I", "hashCode",
    "compareTo__Ljava_nio_ByteBuffer_", "compareTo__Ljava_lang_Object_",
    "getShort", "getShort__I", "getChar", "getChar__I", "getInt", "getInt__I",
    "getLong", "getLong__I", "getFloat", "getFloat__I", "getDouble",
    "getDouble__I", "putShort__S", "putShort__IS", "putChar__C",
    "putChar__IC", "putInt__I", "putInt__II", "putLong__J", "putLong__IJ",
    "putFloat__F", "putFloat__IF", "putDouble__D", "putDouble__ID", "put__B",
    "put__IB", "put__Ljava_nio_ByteBuffer_", "put___BII", "put___B",
    "equals__Ljava_lang_Object_", "toString", "get", "get__I", "get___BII",
    "get___B", "array", "arrayOffset", "hasArray", "isDirect", "asCharBuffer",
    "asDoubleBuffer", "asFloatBuffer", "asIntBuffer", "asLongBuffer",
    "asReadOnlyBuffer", "asShortBuffer", "compact", "duplicate", "order",
    "order__Ljava_nio_ByteOrder_", "slice", "limit", "limit__I", "clear",
    "position", "position__I", "remaining", "capacity", "flip",
    "hasRemaining", "isReadOnly", "mark", "reset", "rewind", "getClass",
    "wait__J", "wait__JI", "wait", "notify", "notifyAll"}

FuseFSSlots ==
  {"chown__Ljava_nio_ByteBuffer_II", "chmod__Ljava_nio_ByteBuffer_I",
    "symlink__Ljava_nio_ByteBuffer_Ljava_nio_ByteBuffer_",
    "getattr__Ljava_nio_ByteBuffer_Lfuse_FuseGetattrSetter_",
    "readlink__Ljava_nio_ByteBuffer_Ljava_nio_ByteBuffer_",
    "getdir__Ljava_nio_ByteBuffer_Lfuse_FuseFSDirFiller_",
    "mknod__Ljava_nio_ByteBuffer_II", "unlink__Ljava_nio_ByteBuffer_",
    "rmdir__Ljava_nio_ByteBuffer_", "utime__Ljava_nio_ByteBuffer_II",
    "statfs__Lfuse_FuseStatfsSetter_",
    "fsync__Ljava_nio_ByteBuffer_Ljava_lang_Object_Z",
    "setxattr__Ljava_nio_ByteBuffer_Ljava_nio_ByteBuffer_Ljava_nio_ByteBuffer_I",
    "getxattrsize__Ljava_nio_ByteBuffer_Ljava_nio_ByteBuffer_Lfuse_FuseSizeSetter_",
    "getxattr__Ljava_nio_ByteBuffer_Ljava_nio_ByteBuffer_Ljava_nio_ByteBuffer_",
    "listxattrsize__Ljava_nio_ByteBuffer_Lfuse_FuseSizeSetter_",
    "listxattr__Ljava_nio_ByteBuffer_Ljava_nio_ByteBuffer_",
    "removexattr__Ljava_nio_ByteBuffer_Ljava_nio_ByteBuffer_",
    "write__Ljava_nio_ByteBuffer_Ljava_lang_Object_ZLjava_nio_ByteBuffer_J",
    "flush__Ljava_nio_ByteBuffer_Ljava_lang_Object_",
    "read__Ljava_nio_ByteBuffer_Ljava_lang_Object_Ljava_nio_ByteBuffer_J",
    "open__Ljava_nio_ByteBuffer_ILfuse_FuseOpenSetter_",
    "mkdir__Ljava_nio_ByteBuffer_I",
    "rename__Ljava_nio_ByteBuffer_Ljava_nio_ByteBuffer_",
    "release__Ljava_nio_ByteBuffer_Ljava_lang_Object_I",
    "truncate__Ljava_nio_ByteBuffer_J",
    "link__Ljava_nio_ByteBuffer_Ljava_nio_ByteBuffer_"}

BindingSlots ==
  <<FuseGetattrSlots, FuseFSDirEntSlots, FuseFSDirFillerSlots,
    FuseStatfsSlots, FuseOpenSlots, FuseSizeSlots, FuseContextSlots,
    ByteBufferSlots, FuseFSSlots>>

=============================================================================
