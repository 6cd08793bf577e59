----------------------------- MODULE ColumnMask -----------------------------
(* The column-mask plugin (src/column-mask/src/lib.rs). pre_query reads the *)
(* rules and applies them to the text of the query one after the other,     *)
(* each to what the one before has left: it looks for a call of the rule's  *)
(* mask function anywhere in the text, and wraps the first occurrence of    *)
(* the column. A text is a sequence of tokens: words, as find_word tells    *)
(* them apart, and what stands between them; "(" stands right behind its    *)
(* word, and Wide for a character of several bytes.                         *)
EXTENDS Naturals, Sequences, FiniteSets

CONSTANTS Texts,      \* the queries that may come
          RuleLists,  \* what an operator may have stored under the key rules
          RoleSets,   \* the roles an identity may have, in lower case
          Wide,       \* a token of a multi-byte character
          Lower,      \* Lower[w]: word w in lower case
          Within,     \* <<v, w>>: v is a part of word w, in lower case
          Ends        \* <<v, w>>: word w ends with v

Tokens   == DOMAIN Lower
MaskRule == [table : Tokens, column : Tokens, mask_function : Tokens,
             unmask_role : Tokens]

\* A list of rules is stored with whether it fits into the 8 KiB of kv_read.
ASSUME MaskAssumption ==
    /\ {"(", ")", "AS"} \subseteq Tokens
    /\ Lower["("] = "(" /\ Lower[")"] = ")" /\ Lower["AS"] = "as"
    /\ Wide \notin {"(", ")", "AS"}
    /\ Texts \subseteq Seq(Tokens)
    /\ \A s \in RuleLists : s.fits \in BOOLEAN /\ s.list \in Seq(MaskRule)
    /\ \A R \in RoleSets : R \subseteq STRING

VARIABLES rules,    \* the key rules, a stored list; never changes
          roles,    \* the roles of the identity; ditto
          query,    \* the text of the query as it came
          maskPc,   \* where pre_query is
          applied,  \* the rules it has read
          turn,     \* the index of the rule whose turn it is
          out,      \* the text so far
          changed,  \* whether a rule has changed it
          pass,     \* how often pre_query has been given the query
          first     \* the text the first pass has left

maskVars == <<rules, roles, query, maskPc, applied, turn, out, changed, pass, first>>

-----------------------------------------------------------------------------
\* Does a word of the text contain v?
Mentions(text, v) ==
    \E i \in DOMAIN text : Lower[text[i]] = Lower[v] \/ <<Lower[v], Lower[text[i]]>> \in Within

\* Does the text contain f followed by a parenthesis?
Calls(text, f) ==
    \E i \in 1 .. Len(text) - 1 :
        text[i + 1] = "(" /\ (text[i] = f \/ <<f, text[i]>> \in Ends)

Occurrences(text, column) ==
    {i \in DOMAIN text : column # "" /\ Lower[text[i]] = Lower[column]}

\* find_word: the first occurrence, 0 without one.
FindWord(text, column) ==
    IF Occurrences(text, column) = {} THEN 0
    ELSE CHOOSE i \in Occurrences(text, column) :
             \A j \in Occurrences(text, column) : i <= j

\* It slices the text at every byte up to there, and panics within a
\* character.
FindPanics(text, column) ==
    /\ column # ""
    /\ \E i \in DOMAIN text :
          /\ text[i] = Wide
          /\ FindWord(text, column) = 0 \/ i < FindWord(text, column)

\* The text that takes the place of a column.
Wrapped(r) == <<r.mask_function, "(", r.column, ")", "AS", r.column>>

\* Bug: what follows the column is lost.
WrapTail(text, i, r) == SubSeq(text, 1, i - 1) \o Wrapped(r)

\* Bug: the column itself stays.
WrapTwice(text, i, r) ==
    SubSeq(text, 1, i - 1) \o Wrapped(r) \o SubSeq(text, i, Len(text))

Wrap(text, i, r) ==
    SubSeq(text, 1, i - 1) \o Wrapped(r) \o SubSeq(text, i + 1, Len(text))

Unmasked(r) == Lower[r.unmask_role] \in roles

\* mask_for: the function of the first rule that names table and column.
MaskFor(list, table, column) ==
    LET for == SelectSeq(list, LAMBDA r : /\ Lower[r.table] = Lower[table]
                                          /\ Lower[r.column] = Lower[column]
                                          /\ ~Unmasked(r))
    IN  IF for = <<>> THEN <<>> ELSE <<for[1].mask_function>>

-----------------------------------------------------------------------------
MaskInit ==
    /\ rules \in RuleLists
    /\ roles \in RoleSets
    /\ query \in Texts
    /\ maskPc = "start"
    /\ applied = <<>>
    /\ turn = 1
    /\ out = query
    /\ changed = FALSE
    /\ pass = 1
    /\ first = query

\* kv_read of the rules: an absent key, a list over 8 KiB and a read that
\* fails give no rules, and then the query goes ahead as it is. So does one
\* whose context does not parse.
ReadRules ==
    /\ maskPc = "start"
    /\ \/ rules.fits /\ applied' = rules.list
       \/ applied' = <<>>
    /\ turn' = 1
    /\ maskPc' = IF applied' = <<>> THEN "done" ELSE "apply"
    /\ UNCHANGED <<rules, roles, query, out, changed, pass, first>>

\* The rule's turn, in apply_rules: it goes by the tables of the query as it
\* came into this pass, and by the calls and columns of the text so far.
PassText == IF pass = 1 THEN query ELSE first

Turn == maskPc = "apply" /\ turn <= Len(applied)

\* Bug: a rule is for all tables.
SkipAnyTable(r) == Unmasked(r) \/ Calls(out, r.mask_function)

\* Bug: a column that is wrapped already is wrapped again.
SkipNoWrapped(r) == ~Mentions(PassText, r.table) \/ Unmasked(r)

Skip(r) == \/ ~Mentions(PassText, r.table)
           \/ Unmasked(r)
           \/ Calls(out, r.mask_function)

NextRule ==
    /\ turn' = turn + 1
    /\ UNCHANGED <<rules, roles, query, maskPc, applied, pass, first>>

SkipRule ==
    /\ Turn
    /\ \/ Skip(applied[turn])
       \/ /\ ~FindPanics(out, applied[turn].column)
          /\ FindWord(out, applied[turn].column) = 0
    /\ NextRule
    /\ UNCHANGED <<out, changed>>

\* Bug: the answer is Continue, although the text has changed.
WrapColumnUnsaid ==
    LET r == applied[turn]
        i == FindWord(out, r.column)
    IN  /\ Turn
        /\ ~Skip(r) /\ ~FindPanics(out, r.column) /\ i # 0
        /\ out' = Wrap(out, i, r)
        /\ NextRule
        /\ UNCHANGED changed

WrapColumn ==
    LET r == applied[turn]
        i == FindWord(out, r.column)
    IN  /\ Turn
        /\ ~Skip(r)
        /\ ~FindPanics(out, r.column)
        /\ i # 0
        /\ out' = Wrap(out, i, r)
        /\ changed' = TRUE
        /\ NextRule

\* The hook traps; what the proxy makes of that is not in the repository.
MaskTraps ==
    /\ Turn
    /\ ~Skip(applied[turn])
    /\ FindPanics(out, applied[turn].column)
    /\ maskPc' = "trapped"
    /\ UNCHANGED <<rules, roles, query, applied, turn, out, changed, pass, first>>

\* Every rule has had its turn.
LoopOver == maskPc = "apply" /\ turn = Len(applied) + 1

\* Rewrite with the text if a rule has changed it, else Continue.
Answer ==
    /\ LoopOver
    /\ maskPc' = "done"
    /\ UNCHANGED <<rules, roles, query, applied, turn, out, changed, pass, first>>

\* The rewritten query comes to the plugin again.
ComesAgain ==
    /\ maskPc = "done" /\ pass = 1 /\ changed
    /\ pass' = 2
    /\ first' = out
    /\ changed' = FALSE
    /\ maskPc' = "start"
    /\ UNCHANGED <<rules, roles, query, applied, turn, out>>

PreQuery == ReadRules \/ SkipRule \/ WrapColumn \/ MaskTraps \/ Answer

MaskNext == PreQuery \/ ComesAgain

-----------------------------------------------------------------------------
(* Properties.                                                              *)

\* Types of the variables.
MaskTypeOK ==
    /\ rules \in RuleLists /\ roles \in RoleSets /\ query \in Texts
    /\ maskPc \in {"start", "apply", "done", "trapped"}
    /\ applied \in {<<>>, rules.list}
    /\ turn \in 1 .. Len(applied) + 1
    /\ out \in Seq(Tokens) /\ first \in Seq(Tokens)
    /\ changed \in BOOLEAN
    /\ pass \in 1 .. 2
    /\ changed <=> out # PassText

\* The rules that are to mask the query: their table is mentioned and the
\* identity lacks their role.
Applicable ==
    {r \in {rules.list[i] : i \in DOMAIN rules.list} :
        Mentions(query, r.table) /\ ~Unmasked(r)}

\* What operators have to see to: the rules of a query mask different
\* columns, with functions of which none ends another or a column, and
\* columns and functions are words, no column called like a function or AS.
Distinct ==
    \A r, s \in Applicable :
        /\ r.column # "" /\ r.mask_function \notin {"(", Wide}
        /\ \A v \in {"(", ")", "AS", Wide, s.mask_function} : Lower[r.column] # Lower[v]
        /\ <<s.mask_function, r.column>> \notin Ends
        /\ r # s => /\ Lower[r.column] # Lower[s.column]
                    /\ r.mask_function # s.mask_function
                    /\ <<r.mask_function, s.mask_function>> \notin Ends

\* And a query that calls the functions itself is left alone.
CallsNoMask == \A r \in Applicable : ~Calls(query, r.mask_function)

\* The places of the query that the rules R mask, and where place i of the
\* query is in the masked text: each mask before it puts six tokens for one.
Marks(R) == {FindWord(query, r.column) : r \in R} \ {0}
Place(R, i) == i + 5 * Cardinality({m \in Marks(R) : m < i})

\* The text is the query with the rules R applied all at the same time.
Masked(text, R) ==
    /\ Len(text) = Len(query) + 5 * Cardinality(Marks(R))
    /\ \A i \in DOMAIN query \ Marks(R) : text[Place(R, i)] = query[i]
    /\ \A r \in R :
          LET i == FindWord(query, r.column)
          IN  i # 0 => \A j \in 1 .. 6 : text[Place(R, i) + j - 1] = Wrapped(r)[j]

\* Applying distinct rules one after the other, each to the text with the
\* inserted functions of the others, is applying them all at once: their
\* order does not matter, none hides the column of another, and nothing else
\* of the query changes.
MaskedAtOnce ==
    LoopOver /\ pass = 1 /\ Distinct /\ CallsNoMask => Masked(out, Applicable)

\* A query that has been rewritten passes the plugin again unchanged, if no
\* rule is for a table that only an inserted function mentions.
SecondPassIdle ==
    LoopOver /\ pass = 2 /\ Distinct /\ CallsNoMask /\
    (\A i \in DOMAIN rules.list :
        Mentions(first, rules.list[i].table) => Mentions(query, rules.list[i].table)) =>
        ~changed

\* The hook traps exactly when a wide character stands before a column it
\* has to mask, or in a query without that column; the text that other rules
\* insert neither brings a trap about nor averts one.
TrapsOnWideOnly ==
    pass = 1 =>
        /\ maskPc = "trapped" /\ Distinct /\ CallsNoMask =>
              \E r \in Applicable : FindPanics(query, r.column)
        /\ LoopOver /\ Distinct /\ CallsNoMask =>
              \A r \in Applicable : ~FindPanics(query, r.column)

\* The documentation: a column for which mask_for gives a function is
\* replaced by a call of it, once, in every query that mentions its table.
EveryRuleMasks ==
    LoopOver /\ pass = 1 /\ CallsNoMask =>
        \A r \in Applicable :
            LET f == MaskFor(applied, r.table, r.column)
            IN  FindWord(query, r.column) # 0 =>
                    \E i \in 1 .. Len(out) - 2 :
                        <<out[i], out[i + 1]>> = <<f[1], "(">>
                        /\ Lower[out[i + 2]] = Lower[r.column]
=============================================================================
