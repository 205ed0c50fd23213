------------------------------ MODULE XmlLexer ------------------------------
(***************************************************************************)
(* The tokenizer of xml.cc.  A text is a sequence of characters, each a    *)
(* string; behind its end there are nul characters (the reader of the file *)
(* adds 16, more than the tokenizer ever looks ahead).  Line numbers and   *)
(* the wording of errors are left out.                                     *)
(***************************************************************************)
EXTENDS Integers, Sequences
LOCAL INSTANCE FiniteSetsExt

CONSTANT TokenSize      \* sizeof(XML_Token::text), the nul included

LowerOf ==
  [A |-> "a", B |-> "b", C |-> "c", D |-> "d", E |-> "e", F |-> "f", G |-> "g", H |-> "h",
   I |-> "i", J |-> "j", K |-> "k", L |-> "l", M |-> "m", N |-> "n", O |-> "o", P |-> "p",
   Q |-> "q", R |-> "r", S |-> "s", T |-> "t", U |-> "u", V |-> "v", W |-> "w", X |-> "x",
   Y |-> "y", Z |-> "z"]

Letters    == DOMAIN LowerOf \union {LowerOf[c] : c \in DOMAIN LowerOf}
NewLine    == {"newline", "return"}
WhiteSpace == {"tab", "vtab", "feed", "blank"}
Control    == NewLine \union {"tab", "vtab", "feed", "control"}

Char(text, p) == IF p <= Len(text) THEN text[p] ELSE "nul"

(* Does s stand at p?                                                      *)
Here(text, p, s) == \A i \in DOMAIN s : Char(text, p + i - 1) = s[i]

-----------------------------------------------------------------------------
(* What a token and what follows it look like.                             *)
Token(token, s, ptr) == [token |-> token, text |-> s, ptr |-> ptr, error |-> FALSE]

(* After a lexer error the text and the position are not used any more.    *)
Failure(ptr) == [token |-> "invalid", text |-> <<>>, ptr |-> ptr, error |-> TRUE]

(* A pair of the two new line characters is one new line.                  *)
AfterNewLine(text, p) ==
  p + (IF {Char(text, p), Char(text, p + 1)} = NewLine THEN 2 ELSE 1)

LexIdent(text, p) ==
  LET end == Min({q \in p .. Len(text) + 1 : Char(text, q) \notin Letters})
  IN  IF end - p > TokenSize - 1 THEN Failure(end)
      ELSE Token("ident", SubSeq(text, p, end - 1), end)

(* Mutant: the closing quote is read as an opening one afterwards.         *)
LexStringLeavesQuote(text, p) ==
  LET end == Min({q \in p + 1 .. Len(text) + 1 : Char(text, q) \in Control \union {"quote", "nul"}})
  IN  IF Char(text, end) # "quote" \/ end - p - 1 > TokenSize - 1 THEN Failure(end)
      ELSE Token("string", SubSeq(text, p + 1, end - 1), end)

(* Control characters, too many characters and the end of the file are all *)
(* errors before the closing quote.                                        *)
LexString(text, p) ==
  LET end == Min({q \in p + 1 .. Len(text) + 1 : Char(text, q) \in Control \union {"quote", "nul"}})
  IN  IF Char(text, end) # "quote" \/ end - p - 1 > TokenSize - 1 THEN Failure(end)
      ELSE Token("string", SubSeq(text, p + 1, end - 1), end + 1)

(* Behind a comment whose inside is looked at from p on.  After a new line *)
(* one more character is skipped.                                          *)
RECURSIVE AfterComment(_, _)
AfterComment(text, p) ==
  IF Char(text, p) = "nul" \/ Here(text, p, <<"-", "-", ">">>) THEN p + 3
  ELSE IF Char(text, p) \in NewLine THEN AfterComment(text, AfterNewLine(text, p) + 1)
  ELSE AfterComment(text, p + 1)

AfterProlog(text, p) ==
  2 + Min({q \in p .. Len(text) + 1 : Char(text, q) = "nul" \/ Here(text, q, <<"?", ">">>)})

(* The first token at or behind p.  A comment or a prolog with nothing     *)
(* behind it counts as not closed.                                         *)
RECURSIVE NextToken(_, _)
NextToken(text, p) ==
  LET c       == Char(text, p)
      skip(q) == IF Char(text, q) = "nul" THEN Failure(q) ELSE NextToken(text, q)
  IN  CASE c = "nul"           -> Token("eof", <<>>, p)
        [] c \in NewLine       -> NextToken(text, AfterNewLine(text, p))
        [] c \in WhiteSpace    -> NextToken(text, p + 1)
        [] c = "quote"         -> LexString(text, p)
        [] Here(text, p, <<"<", "!", "-", "-">>) -> skip(AfterComment(text, p + 4))
        [] Here(text, p, <<"<", "?">>)           -> skip(AfterProlog(text, p + 2))
        [] c \in {"<", "/", "=", ">"}
             /\ ~Here(text, p, <<"<", "!", "-", "-">>)
             /\ ~Here(text, p, <<"<", "?">>)     -> Token(c, <<>>, p + 1)
        [] c \in Letters       -> LexIdent(text, p)
        [] OTHER               -> Failure(p)

=============================================================================
