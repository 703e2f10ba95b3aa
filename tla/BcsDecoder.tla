---------------------------- MODULE BcsDecoder ----------------------------
(***************************************************************************)
(* bcs.decode_typed, which Rego policies call to read the pure inputs of a *)
(* transaction (access_controller/predicates/rego_expression/              *)
(* bcs_decoder.rs).  Everything is a set of outcomes; a call that fails    *)
(* ends the evaluation of the policy, and the request is refused.          *)
(***************************************************************************)
EXTENDS Integers, SequencesExt

CONSTANTS
  Radix,          \* the values of a byte; 256 in the code
  AddressLength,  \* the bytes of an address; 32 in the code
  Utf8            \* the byte strings that are UTF-8

Byte == 0 .. Radix - 1
Half == Radix \div 2

(* The outcomes: an error, or a value of Rego.  An address becomes a string,
   too, in a form of its own. *)
Error == [error |-> TRUE]
Number(n) == [number |-> n]
Bool(b) == [bool |-> b]
Text(s) == [string |-> s]
Address(s) == [address |-> s]
Array(values) == [array |-> values]

ElementOf ==
  [vector_string |-> "string", vector_u8 |-> "u8", vector_u16 |-> "u16",
   vector_u32 |-> "u32", vector_u64 |-> "u64", vector_bool |-> "bool",
   vector_address |-> "address"]

Width ==
  [u8 |-> 1, u16 |-> 2, u32 |-> 4, u64 |-> 8, bool |-> 1,
   address |-> AddressLength]

BcsDataType == {"string"} \cup DOMAIN Width \cup DOMAIN ElementOf

-----------------------------------------------------------------------------
(* The format, from the libraries: numbers have their lowest byte first; a
   length comes in groups whose last byte is below Half, as short as can be.
   Each operator gives what is read from the front of s, with the rest of s. *)
LittleEndian(s) == FoldRight(LAMBDA b, n : n * Radix + b, s, 0)

Rest(s, n) == SubSeq(s, n + 1, Len(s))

ReadLength(s) ==
  {<<FoldRight(LAMBDA b, n : (n * Half) + (b % Half), SubSeq(s, 1, k), 0), Rest(s, k)>> :
     k \in {i \in 1 .. Len(s) :
              /\ s[i] < Half
              /\ \A j \in 1 .. i - 1 : s[j] >= Half
              /\ i > 1 => s[i] # 0}}

Scalar(type, s) ==
  IF type = "bool" THEN {Bool(b) : b \in {b \in BOOLEAN : s = <<IF b THEN 1 ELSE 0>>}}
  ELSE IF type = "address" THEN {Address(s)}
  ELSE {Number(LittleEndian(s))}

ReadElement(type, s) ==
  IF type = "string"
  THEN {<<Text(SubSeq(l[2], 1, l[1])), Rest(l[2], l[1])>> :
          l \in {m \in ReadLength(s) :
                   Len(m[2]) >= m[1] /\ SubSeq(m[2], 1, m[1]) \in Utf8}}
  ELSE IF Len(s) < Width[type] THEN {}
  ELSE {<<v, Rest(s, Width[type])>> : v \in Scalar(type, SubSeq(s, 1, Width[type]))}

ReadElements(type, n, s) ==
  FoldLeft(LAMBDA read, i :
             UNION {{<<Append(p[1], e[1]), e[2]>> : e \in ReadElement(type, p[2])} :
                      p \in read},
           {<< << >>, s>>}, [i \in 1 .. n |-> i])

(* The whole of the bytes must be read. *)
FromBytes(type, s) ==
  LET read == IF type \in DOMAIN ElementOf
              THEN UNION {{<<Array(p[1]), p[2]>> :
                             p \in ReadElements(ElementOf[type], l[1], l[2])} :
                            l \in {m \in ReadLength(s) : m[1] <= Len(m[2])}}
              ELSE ReadElement(type, s)
  IN  {p[1] : p \in {q \in read : q[2] = << >>}}

(* The SDK reads booleans and vectors of addresses by a layout.  What it makes
   of bytes that do not fit is not said in this repository: an error, or the
   bytes as they are. *)
FromBcsBytes(type, s) ==
  IF FromBytes(type, s) # {} THEN FromBytes(type, s)
  ELSE {Error, Array([i \in DOMAIN s |-> Number(s[i])])}

-----------------------------------------------------------------------------
(* An address that does not fit is an error in either case, since no other
   length can be taken for one. *)
ReadByLayout == {"bool", "vector_bool", "vector_address"}

BcsDecodeBytes(s, type) ==
  IF type \in ReadByLayout THEN FromBcsBytes(type, s)
  ELSE IF FromBytes(type, s) = {} THEN {Error}
  ELSE FromBytes(type, s)

(* The arguments: the bytes, an array of numbers, and the name of the type. *)
BcsDecodeTyped(args) ==
  IF /\ Len(args) = 2
     /\ args[2] \in BcsDataType
     /\ \A i \in DOMAIN args[1] : args[1][i] \in Byte
  THEN BcsDecodeBytes(args[1], args[2])
  ELSE {Error}
=============================================================================
