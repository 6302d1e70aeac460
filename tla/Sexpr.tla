-------------------------------- MODULE Sexpr ---------------------------------
(* The S-expressions of the gateway protocols: the writer of                 *)
(* snx-sexpr-writer.c, the recursive-descent parser and the accessors of     *)
(* snx-sexpr.c.                                                              *)
(*                                                                           *)
(* A text is a sequence of symbols.  The delimiters are symbols, a word of   *)
(* letters and digits is one symbol, and so is any other character; an atom  *)
(* is the sequence of symbols it spans.  All white space is the symbol " ".  *)
EXTENDS Naturals, SequencesExt

NoText == <<"no text">>                    \* the NULL string of the accessors
Delimiters == {"", " ", "(", ")"}

(* The symbol at position p; the text ends with a NUL.                       *)
At(text, p) == IF p <= Len(text) THEN text[p] ELSE ""

(* The first position from p on that holds a symbol of the set.              *)
FirstOf(text, p, symbols) ==
  Min({q \in p .. Len(text) + 1 : At(text, q) \in symbols})

SkipWs(text, p) == Min({q \in p .. Len(text) + 1 : At(text, q) # " "})

-------------------------------------------------------------------------------
(* The tree, and the result of a parse: a tree and the position behind it.   *)

Atom(text) == [type |-> "atom", atom |-> text, children |-> <<>>]
List(children) == [type |-> "list", atom |-> <<>>, children |-> children]
NoExpr == [type |-> "none", atom |-> <<>>, children |-> <<>>]

Parsed(expr, p) == [expr |-> expr, pos |-> p]
ParseError == Parsed(NoExpr, 0)
IsError(result) == result.expr = NoExpr

Unescaped(symbol) ==
  LET escapes == [n |-> "\n", r |-> "\r", t |-> "\t"]
  IN  IF symbol \in DOMAIN escapes THEN escapes[symbol] ELSE symbol

(* A quoted atom ends at the first quote that no backslash escapes.          *)
RECURSIVE ParseQuoted(_, _, _)
ParseQuoted(text, p, value) ==
  CASE At(text, p) = "" -> ParseError
    [] At(text, p) = "\"" -> Parsed(Atom(value), p + 1)
    [] At(text, p) = "\\" /\ At(text, p + 1) # "" ->
         ParseQuoted(text, p + 2, Append(value, Unescaped(At(text, p + 1))))
    [] OTHER -> ParseQuoted(text, p + 1, Append(value, At(text, p)))

ParseAtom(text, p) ==
  LET end == FirstOf(text, p, Delimiters)
  IN  IF end = p THEN ParseError ELSE Parsed(Atom(SubSeq(text, p, end - 1)), end)

RECURSIVE ParseList(_, _, _), ParseExpr(_, _)
ParseList(text, p, children) ==
  LET q == SkipWs(text, p)
      child == ParseExpr(text, q)
  IN  CASE At(text, q) = "" -> ParseError
        [] At(text, q) = ")" -> Parsed(List(children), q + 1)
        [] OTHER -> IF IsError(child) THEN ParseError
                    ELSE ParseList(text, child.pos, Append(children, child.expr))

ParseExpr(text, p) ==
  LET q == SkipWs(text, p)
  IN  CASE At(text, q) = "(" -> ParseList(text, q + 1, <<>>)
        [] At(text, q) = "\"" -> ParseQuoted(text, q + 1, <<>>)
        [] OTHER -> ParseAtom(text, q)

(* One expression and nothing behind it but white space.                     *)
Parse(text) ==
  LET result == ParseExpr(text, 1)
  IN  IF IsError(result) \/ SkipWs(text, result.pos) <= Len(text)
      THEN NoExpr ELSE result.expr

-------------------------------------------------------------------------------
(* Accessors.  NoExpr stands for the NULL node.                              *)

Child(expr, i) == IF i \in DOMAIN expr.children THEN expr.children[i] ELSE NoExpr
IsKey(expr) == expr.type = "atom" /\ At(expr.atom, 1) = ":"

(* A named object begins with an atom that is no key.                        *)
FieldStart(expr) ==
  IF Child(expr, 1).type = "atom" /\ ~IsKey(Child(expr, 1)) THEN 1 ELSE 0
FieldCount(expr) ==
  IF Len(expr.children) > FieldStart(expr)
  THEN (Len(expr.children) - FieldStart(expr)) \div 2 ELSE 0
FieldKey(expr, i) ==
  LET key == Child(expr, FieldStart(expr) + 2 * i - 1)
  IN  IF IsKey(key) THEN Tail(key.atom) ELSE NoText
FieldValue(expr, i) == Child(expr, FieldStart(expr) + 2 * i)

(* The first field with this key.                                            *)
FindField(expr, key) ==
  LET found == {i \in 1 .. FieldCount(expr) : FieldKey(expr, i) = <<key>>}
  IN  IF found = {} THEN NoExpr ELSE FieldValue(expr, Min(found))

Get(expr, path) == FoldLeft(FindField, expr, path)

(* A value is a list of one atom.                                            *)
ValueString(expr) ==
  IF Len(expr.children) = 1 /\ Child(expr, 1).type = "atom"
  THEN Child(expr, 1).atom ELSE NoText
GetString(expr, path) == ValueString(Get(expr, path))

ObjectName(expr) ==
  IF FieldStart(expr) = 1 THEN Child(expr, 1).atom ELSE NoText

-------------------------------------------------------------------------------
(* The writer.  Punctuation holds the symbols that are no letter, digit or   *)
(* underscore; a value that has one of them is put between quotes as it       *)
(* stands, with no escape for a quote or a backslash in it.                  *)

Punctuation == {" ", "(", ")", ":", "\"", "\\", "-", "\n", "\r", "\t"}

Value(text) == [kind |-> "value", name |-> text, fields |-> <<>>]
Object(name, fields) == [kind |-> "object", name |-> name, fields |-> fields]

NeedsQuoting(text) == ToSet(text) \cap Punctuation # {}

RECURSIVE SerializeNode(_)
SerializeNode(node) ==
  IF node.kind = "value"
  THEN IF NeedsQuoting(node.name)
       THEN <<"(", "\"">> \o node.name \o <<"\"", ")">>
       ELSE <<"(">> \o node.name \o <<")">>
  ELSE LET field(f) == <<" ", ":", f[1], " ">> \o SerializeNode(f[2])
       IN  <<"(">> \o node.name
             \o FlattenSeq([i \in DOMAIN node.fields |-> field(node.fields[i])])
             \o <<")">>
===============================================================================
