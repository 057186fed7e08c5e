---------------------------- MODULE MCYamlStorage ----------------------------
(***************************************************************************)
(* Instances of YamlStorage.  The documents have the shapes of those under *)
(* pmud/conf/world: maps of maps, maps of sequences, sequences of maps,    *)
(* keys with "_" in them, and empty entries.                               *)
(***************************************************************************)
EXTENDS YamlStorage

a == <<"a">>
b == <<"b">>
ab == <<"a", "b">>

TwoValues == {"1", "2"}
PathKeys == {Root, a, b, ab}
EntryKeys == {a, b}

SmallDocuments == {
  \* a: {b: 1, a_b: [..]} and the like
  Map(<<Entry(a, Map(<<Entry(b, Scalar("1"))>>)), Entry(b, Sequence(<<Scalar("1")>>))>>),
  \* scalars and a sequence at the prefix
  Map(<<Entry(a, Scalar("1")), Entry(b, Sequence(<<Scalar("2"), Scalar("1")>>)),
        Entry(ab, Map(<<Entry(a, Scalar("2"))>>))>>),
  \* "a_b" and a: {b} meet at the same path
  Map(<<Entry(ab, Map(<<Entry(a, Scalar("1"))>>)),
        Entry(a, Map(<<Entry(b, Sequence(<<Map(<<Entry(b, Scalar("2"))>>)>>))>>))>>),
  \* an entry without a value, and a sequence
  Map(<<Entry(a, Null), Entry(b, Map(<<Entry(a, Scalar("2"))>>))>>),
  Sequence(<<Scalar("1"), Scalar("2")>>),
  Scalar("1")}
=============================================================================
