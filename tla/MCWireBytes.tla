---------------------------- MODULE MCWireBytes ----------------------------
(***************************************************************************)
(* Wire.tla over every stream of up to MaxBytes bytes, read as each of a   *)
(* few types that between them have every shape.  A byte has three values  *)
(* and a word two bytes, so words go up to 8: far enough for every tag and *)
(* length that matters, and for one that is too long to allocate.          *)
(***************************************************************************)
EXTENDS Wire

CONSTANT MaxBytes

MCTypes ==
    [ u64     |-> U64,
      bool    |-> Bool,
      bytes   |-> Bytes,
      unit    |-> Unit,
      i8      |-> Other("i8"),
      framed  |-> Framed,
      name    |-> Newtype("bytes"),
      maybe   |-> Option("name"),
      maybes  |-> Vec("maybe"),
      flags   |-> Vec("bool"),
      nested  |-> Vec("flags"),
      pair    |-> Struct(<< "bool", "bytes" >>),
      signed  |-> Struct(<< "u64", "i8" >>),
      enum    |-> Tagged([ t \in { 0, 2, 5 } |->
                     CASE t = 0 -> << >> [] t = 2 -> << "bool", "unit" >>
                       [] t = 5 -> << "maybe" >> ]),
      msg     |-> MsgOrEof("enum") ]

Read(ts, n) == [asked : { ts }, bytes : UNION { [ 1 .. m -> 0 .. Base - 1 ] : m \in 0 .. n }]

AllStreams ==
    UNION { Read(<< t >>, MaxBytes) :
              t \in { "bool", "name", "maybe", "maybes", "flags", "nested", "pair",
                      "signed", "enum", "framed" } }
    \cup Read(<< "msg", "msg" >>, MaxBytes)
    \cup Read(<< "framed", "bool" >>, MaxBytes)

NoWritings == { }
=============================================================================
