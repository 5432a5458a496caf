----------------------------- MODULE WireTypes -----------------------------
(***************************************************************************)
(* What the fields of the worker operations, their answers and the daemon's*)
(* messages are made of: the types of Wire.tla, one for each kind of field *)
(* of WorkerOps.tla and Stderr.tla, and the ones those are made of in turn.*)
(* A struct without fields (Resp), and the wrappers Plain and              *)
(* WithFramedSource, add nothing to what they wrap.  A Nar is read by      *)
(* NarStream.tla.                                                          *)
(***************************************************************************)
EXTENDS Wire, WorkerOps, Stderr, TLC

\* Strings, paths and hashes are byte buffers, whatever they are called.
StringTypes ==
    [ u64         |-> U64,
      bool        |-> Bool,
      bytes       |-> Bytes,
      unit        |-> Unit,
      framed      |-> Framed,
      string      |-> Newtype("bytes"),
      path        |-> Newtype("string"),
      realisation |-> Newtype("string"),
      hash        |-> Struct(<< "bytes" >>) ]

\* Sets and maps travel as lists, in the order they are in.
ListTypes ==
    [ paths   |-> Vec("path"),
      set     |-> Struct(<< "paths" >>),
      pair    |-> Struct(<< "string", "string" >>),
      map     |-> Vec("pair"),
      output  |-> Struct(DerivationOutput),
      named   |-> Struct(<< "string", "output" >>),
      outputs |-> Vec("named"),
      info    |-> Struct(ValidPathInfo),
      maybe   |-> Option("info"),
      option  |-> Struct(<< "maybe" >>),
      result  |-> Struct(BuildResult),
      keyed   |-> Struct(<< "path", "result" >>),
      results |-> Vec("keyed") ]

\* The enums without fields.
EnumTypes == [ e \in DOMAIN EnumTags |-> Tagged([ t \in EnumTags[e] |-> << >> ]) ]

LoggerField == Tagged([ t \in { 0, 1 } |-> IF t = 0 THEN << "u64" >> ELSE << "string" >> ])

MsgTypes ==
    [ trace      |-> Struct(<< "u64", "string" >>),
      traces     |-> Vec("trace"),
      field      |-> LoggerField,
      field_list |-> Vec("field"),
      fields     |-> Struct(<< "field_list" >>),
      msg        |-> Tagged([ t \in Msg |-> MsgBody(t) ]),
      msg_or_eof |-> MsgOrEof("msg") ]

WorkerOpType == [ worker_op |-> Tagged([ t \in WorkerOp |-> Body(t) ]) ]

NixTypes == StringTypes @@ ListTypes @@ EnumTypes @@ MsgTypes @@ WorkerOpType
=============================================================================
