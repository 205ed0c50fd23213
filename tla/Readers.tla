------------------------------ MODULE Readers -------------------------------
(***************************************************************************)
(* The readers of numbers and of files, against writers that put their    *)
(* input together part by part.  After every part the input is complete:   *)
(* a writer ends what is still open.  Sizes are scaled down with the byte. *)
(***************************************************************************)
EXTENDS Naturals, Sequences

CONSTANTS
  Setups,             \* for every kind of input the choices made before it starts
  Parts,              \* for every kind of input the parts there are
  MaxParts,           \* for every kind of input the number of parts at most
  MayFollow(_, _, _)  \* may a part come next, after the parts of an input of this kind?

(* For every kind of input: was all of it, its setup and its parts, read   *)
(* as it should be?  The writers define that, on the scale they work on.   *)
CONSTANTS
  ReadsBytes(_, _), ReadsLimbs(_, _), ReadsDigits(_, _), ReadsKey(_, _), ReadsOtb(_, _),
  ReadsTree(_, _), ReadsMap(_, _), ReadsTokens(_, _), ReadsItems(_, _)

ASSUME KindsAssumption == DOMAIN Parts = DOMAIN Setups /\ DOMAIN MaxParts = DOMAIN Setups

VARIABLES
  kind,         \* what is written
  setup,        \* the choices made for it
  parts         \* the parts that are written

vars == <<kind, setup, parts>>

-----------------------------------------------------------------------------
Init ==
  /\ kind \in DOMAIN Setups
  /\ setup \in Setups[kind]
  /\ parts = <<>>

Write ==
  /\ Len(parts) < MaxParts[kind]
  /\ \E part \in Parts[kind] : MayFollow(kind, parts, part) /\ parts' = Append(parts, part)
  /\ UNCHANGED <<kind, setup>>

Next == Write

Spec == Init /\ [][Next]_vars

-----------------------------------------------------------------------------
(* mini-gmp.c: although every word in it wraps, and division only guesses  *)
(* a limb by an inverse of the divisor's upper two, its numbers are the    *)
(* integers they should be.  buffer_util.hh: so are the integers in a      *)
(* buffer, and the functions for one kind of processor leave and find the  *)
(* bytes that those for the other do.                                      *)
NumbersExact ==
  /\ kind = "bytes" => ReadsBytes(setup, parts)
  /\ kind = "limbs" => ReadsLimbs(setup, parts)
  /\ kind = "digits" => ReadsDigits(setup, parts)

(* rsa_setkey, rsa_encode, rsa_decode: exactly the keys that lose no       *)
(* message are accepted, and with those decoding by the Chinese remainder  *)
(* theorem gives back the number that was encoded.                         *)
RsaRoundTrip == kind = "key" => ReadsKey(setup, parts)

(* otb_list.cc and otb_stats.cc: items and attributes are those that were  *)
(* written, though every byte of them may be one that starts, ends or      *)
(* escapes, the counters count them, and a file that ends early is noticed.*)
OtbAsWritten == kind = "otb" => ReadsOtb(setup, parts)

(* otbm_list.cc: elements are found as they were written, by a reader that *)
(* overwrites the file while it reads, and a file that ends early has no   *)
(* root.                                                                   *)
ElementsAsWritten ==
  /\ kind = "tree" => ReadsTree(setup, parts)
  /\ kind = "map" => ReadsMap(setup, parts)

(* xml.cc: the tokens are those that were written, up to the first error,  *)
(* whether blanks, new lines, prologs or comments stand between them.  (No *)
(* comment has its end at the start of a line, where xml.cc misses it.)     *)
TokensAsWritten == kind = "tokens" => ReadsTokens(setup, parts)

(* items_list.cc and items_stats.cc: the tools list and count the items of *)
(* a file, and list a beginning of them if it ends early.                  *)
ItemsAsWritten == kind = "items" => ReadsItems(setup, parts)

=============================================================================
