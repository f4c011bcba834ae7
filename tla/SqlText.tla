------------------------------- MODULE SqlText -------------------------------
(***************************************************************************)
(* How src/app/bw_pg.py reads SQL text.  The application writes SQLite's   *)
(* dialect; scripts are cut at their semicolons, "?" becomes the driver's  *)
(* placeholder, literal percent signs are doubled for the driver, and      *)
(* MAX/MIN with several arguments become GREATEST/LEAST.  Each of these is *)
(* a scanner of its own that must agree with the others, and with the      *)
(* server, on what is code and what is a string or a comment.              *)
(*                                                                         *)
(* A text grows one character at a time over one of a few alphabets:       *)
(* "n" is a line break, "d" the double quote, "M" a MAX or MIN with its    *)
(* opening parenthesis and "G" the GREATEST or LEAST made of it.           *)
(***************************************************************************)
EXTENDS Naturals, FiniteSets, Sequences, SequencesExt, FiniteSetsExt

CONSTANTS
    Alphabets,      \* the sets of characters texts are made of
    MaxText         \* bound: the longest text

ASSUME SqlTextConstants == MaxText \in Nat

VARIABLES
    alphabet,
    text

textVars == <<alphabet, text>>

TextInit ==
    /\ alphabet \in Alphabets
    /\ text = <<>>

\* The application's next character.
Type(c) ==
    /\ Len(text) < MaxText
    /\ text' = Append(text, c)
    /\ UNCHANGED alphabet

TextNext == \E c \in alphabet : Type(c)
-----------------------------------------------------------------------------
\* The scanners: where they are in a text, and whether inside of something.
At(t, i) == IF i \in DOMAIN t THEN t[i] ELSE "end"
In(what) == [in |-> what, tag |-> <<>>]
Code == In("code")
Quotes == {"'", "d"}

\* The tag that opens a dollar-quoted body at i: $, letters, $.
DollarTags(t, i) ==
    {SubSeq(t, i, j) : j \in {k \in (i + 1) .. Len(t) :
        t[i] = "$" /\ t[k] = "$" /\ \A m \in (i + 1) .. (k - 1) : t[m] \in {"a", "s"}}}

StartsAt(t, i, word) == IsPrefix(word, SubSeq(t, i, Len(t)))

\* What the scanner does with the characters at i: the mode it is in afterwards
\* and how many it takes.  Only the script splitter knows dollar quotes.
Scan(t, at, mode, dollars) ==
    LET ch == At(t, at)
        nxt == At(t, at + 1)
        Go(m, width) == [at |-> at + width, mode |-> m]
    IN  CASE at > Len(t) -> Go(mode, 0)
          [] at <= Len(t) /\ mode.in = "line" -> Go(IF ch = "n" THEN Code ELSE mode, 1)
          [] at <= Len(t) /\ mode.in = "block" ->
                IF ch = "*" /\ nxt = "/" THEN Go(Code, 2) ELSE Go(mode, 1)
          [] at <= Len(t) /\ mode.in \in Quotes ->
                IF ch = mode.in /\ nxt = mode.in THEN Go(mode, 2)
                ELSE Go(IF ch = mode.in THEN Code ELSE mode, 1)
          [] at <= Len(t) /\ mode.in = "dollar" ->
                IF StartsAt(t, at, mode.tag) THEN Go(Code, Len(mode.tag)) ELSE Go(mode, 1)
          [] at <= Len(t) /\ mode.in = "code" ->
                IF ch = "-" /\ nxt = "-" THEN Go(In("line"), 2)
                ELSE IF ch = "/" /\ nxt = "*" THEN Go(In("block"), 2)
                ELSE IF ch \in Quotes THEN Go(In(ch), 1)
                ELSE IF dollars /\ DollarTags(t, at) # {}
                     THEN LET tag == CHOOSE g \in DollarTags(t, at) : TRUE
                          IN  Go([in |-> "dollar", tag |-> tag], Len(tag))
                ELSE Go(Code, 1)

\* Where the scanner is after k steps.
Steps(t, dollars) ==
    LET step[k \in 0 .. Len(t)] ==
            IF k = 0 THEN [at |-> 1, mode |-> Code]
            ELSE Scan(t, step[k - 1].at, step[k - 1].mode, dollars)
    IN  step

\* The places where the character c stands in code.
Bare(t, c, dollars) ==
    LET step == Steps(t, dollars)
    IN  {i \in DOMAIN t : t[i] = c /\ \E k \in DOMAIN step : step[k] = [at |-> i, mode |-> Code]}

EndMode(t, dollars) == Steps(t, dollars)[Len(t)].mode

Strip(t) ==
    LET ink == {i \in DOMAIN t : t[i] # "n"}
    IN  IF ink = {} THEN <<>> ELSE SubSeq(t, Min(ink), Max(ink))

\* _split_sql_script: the text between the live semicolons, stripped, the empty ones
\* left out.
Pieces(t, cuts) ==
    LET ends == SetToSortSeq(cuts \cup {Len(t) + 1}, <)
    IN  [k \in DOMAIN ends |-> SubSeq(t, IF k = 1 THEN 1 ELSE ends[k - 1] + 1, ends[k] - 1)]

_split_sql_script(t) ==
    SelectSeq([k \in DOMAIN Pieces(t, Bare(t, ";", TRUE)) |->
                  Strip(Pieces(t, Bare(t, ";", TRUE))[k])],
              LAMBDA s : s # <<>>)

\* _qmarks_to_psycopg: every live "?" becomes "%s".
_qmarks_to_psycopg(t) ==
    FlattenSeq([i \in DOMAIN t |->
                   IF i \in Bare(t, "?", FALSE) THEN <<"%", "s">> ELSE <<t[i]>>])

\* _escape_psycopg_percent: "%" and a letter that would make it a placeholder, and
\* "%%", are kept; any other "%" is doubled.
_escape_psycopg_percent(t) ==
    LET out[i \in 1 .. Len(t) + 1] ==
            IF i > Len(t) THEN <<>>
            ELSE IF t[i] # "%" THEN <<t[i]>> \o out[i + 1]
            ELSE IF At(t, i + 1) \in {"s", "%"} THEN <<"%", t[i + 1]>> \o out[i + 2]
            ELSE <<"%", "%">> \o out[i + 1]
    IN  out[1]

\* The driver reads placeholders anywhere in the text: "%s" takes a parameter, "%%" is
\* a percent sign.
DriverReads(t) ==
    LET out[i \in 1 .. Len(t) + 1] ==
            IF i > Len(t) THEN <<>>
            ELSE IF t[i] # "%" THEN <<t[i]>> \o out[i + 1]
            ELSE IF At(t, i + 1) = "s" THEN <<"parameter">> \o out[i + 2]
            ELSE IF At(t, i + 1) = "%" THEN <<"%">> \o out[i + 2]
            ELSE <<"error">> \o out[i + 1]
    IN  out[1]

\* execute with parameters.
ServerText(t) == DriverReads(_escape_psycopg_percent(_qmarks_to_psycopg(t)))
-----------------------------------------------------------------------------
\* _translate_scalar_minmax.  From an "M" the scan goes to the parenthesis that closes
\* it, over strings, and remembers a comma one level deep.
CallScan(t, m) ==
    LET Next(s, i) ==
            LET ch == At(t, i)
            IN  IF s.done \/ i > Len(t) THEN s
                ELSE IF s.quote # "none"
                     THEN [s EXCEPT !.quote = IF ch = s.quote THEN "none" ELSE s.quote]
                ELSE IF ch \in Quotes THEN [s EXCEPT !.quote = ch]
                ELSE IF ch \in {"(", "M", "G"} THEN [s EXCEPT !.depth = s.depth + 1]
                ELSE IF ch = ")"
                     THEN [s EXCEPT !.depth = s.depth - 1, !.done = s.depth = 1, !.end = i]
                ELSE [s EXCEPT !.comma = s.comma \/ (ch = "," /\ s.depth = 1)]
        scan[i \in (m - 1) .. Len(t)] ==
            IF i = m - 1 THEN [depth |-> 0, quote |-> "none", comma |-> FALSE,
                               done |-> FALSE, end |-> 0]
            ELSE Next(scan[i - 1], i)
    IN  scan[Len(t)]

\* The calls the loop would rewrite, the first of them in each round.
Scalars(t) == {m \in DOMAIN t : t[m] = "M" /\ CallScan(t, m).done /\ CallScan(t, m).comma}

_translate_scalar_minmax(t) ==
    LET round[k \in 0 .. Len(t)] ==
            IF k = 0 THEN t
            ELSE LET now == round[k - 1]
                 IN  IF Scalars(now) = {} THEN now
                     ELSE [now EXCEPT ![Min(Scalars(now))] = "G"]
    IN  round[Len(t)]

\* The parenthesis at m is closed at c: between them the parentheses are balanced.
Opens(t, i, j) == Cardinality({k \in i .. j : t[k] \in {"(", "M", "G"}})
Closes(t, i, j) == Cardinality({k \in i .. j : t[k] = ")"})
ClosedAt(t, m, c) ==
    /\ c \in (m + 1) .. Len(t) /\ t[c] = ")"
    /\ Opens(t, m, c) = Closes(t, m, c)
    /\ \A j \in m .. (c - 1) : Opens(t, m, j) > Closes(t, m, j)
-----------------------------------------------------------------------------
TextTypeOK ==
    /\ alphabet \in Alphabets
    /\ text \in Seq(alphabet) /\ Len(text) <= MaxText

\* executescript: every statement but the last ends outside of strings and comments,
\* and all that is not a separator or white space is in one of them, in order.
StatementsAreWhole ==
    LET statements == _split_sql_script(text)
        Ink(t) == SelectSeq(t, LAMBDA c : c # "n" /\ c # ";")
    IN  /\ \A k \in 1 .. (Len(statements) - 1) :
              EndMode(statements[k], TRUE).in \in {"code", "line"}
        /\ \A k \in DOMAIN statements : Bare(statements[k], ";", TRUE) = {}
        /\ Ink(FlattenSeq(statements)) = Ink(text)

\* With parameters the server reads the text the application wrote, a parameter for
\* every "?" outside strings and comments and every percent sign as it was: if no "%"
\* stands before a letter that makes it a placeholder, a "?" or another "%".
ParametersFit ==
    (\A i \in DOMAIN text : text[i] = "%" => At(text, i + 1) \notin {"s", "?", "%"})
        => ServerText(text) =
              [i \in DOMAIN text |-> IF i \in Bare(text, "?", FALSE) THEN "parameter" ELSE text[i]]

\* Exactly the calls with a comma of their own are rewritten, inner and outer ones
\* alike, and what stands in a string does not count: if no MAX stands in one.
MinMaxTold ==
    LET code == [i \in DOMAIN text |-> IF i \in Bare(text, text[i], FALSE) THEN text[i] ELSE "a"]
        OwnComma(m, k) == code[k] = "," /\ Opens(code, m, k) = Closes(code, m, k) + 1
    IN  (\A i \in DOMAIN text : text[i] = "M" => code[i] = "M") =>
            {m \in DOMAIN text : _translate_scalar_minmax(text)[m] = "G"} =
                {m \in DOMAIN text : code[m] = "M" /\ \E c \in DOMAIN text :
                    ClosedAt(code, m, c) /\ \E k \in m .. c : OwnComma(m, k)}

TextTold == StatementsAreWhole /\ ParametersFit /\ MinMaxTold
=============================================================================
