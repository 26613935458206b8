----------------------------- MODULE RuleParser -----------------------------
(* modules/parser: access rules.  A rule is read token by token, with nothing  *)
(* to look ahead for but a function's parentheses, and the tokens are          *)
(* evaluated from left to right, without one operator binding more than        *)
(* another.                                                                    *)
EXTENDS Naturals, Sequences, FiniteSets

CONSTANT MaxText   \* bound: words in a rule

ASSUME MaxTextAssumption == MaxText \in Nat

\* "f" is the name of a function, "x" a word that is none.
Word == {"(", ")", "&&", "||", "!", "true", "f", "x"}
Value == {"TRUE", "FALSE", "NONE"}

VARIABLES
    read,         \* words read so far
    tokens,
    func_token,   \* the last function: "none", "name" before its argument, "arg" in it
    open_parens,
    parsed        \* "reading", "error" or "tokens"

parserVars == <<read, tokens, func_token, open_parens, parsed>>

parserInit == read = 0 /\ tokens = <<>> /\ func_token = "none" /\ open_parens = 0 /\ parsed = "reading"

last_token == IF tokens = <<>> THEN "T_NONE" ELSE tokens[Len(tokens)]
Operand == {"true", "f", ")"}
Operator == {"&&", "||", "!"}
-----------------------------------------------------------------------------
(* parser_tokenize, word by word.  A word gives a token, an error, or changes  *)
(* the function that is being read.                                            *)

add_token(w) == tokens' = Append(tokens, w) /\ parsed' = parsed
Error == parsed' = "error" /\ UNCHANGED <<tokens, func_token, open_parens>>

\* Whether the token w may come now.
Follows(w) ==
    /\ w \in {"(", "f", "true"} => last_token \notin Operand
    /\ w = ")" => last_token \notin Operator \cup {"("}
    /\ w \in {"&&", "||"} => last_token \in Operand
    /\ w = "!" => last_token \in {"T_NONE", "&&", "||", "("}

open_paren ==
    \/ /\ func_token = "name"
       /\ func_token' = "arg" /\ open_parens' = open_parens + 1
       /\ UNCHANGED <<tokens, parsed>>
    \/ /\ func_token = "none" /\ Follows("(")
       /\ add_token("(") /\ open_parens' = open_parens + 1 /\ UNCHANGED func_token
    \/ (func_token = "arg" \/ (func_token = "none" /\ ~Follows("("))) /\ Error

close_paren ==
    \/ /\ open_parens > 0 /\ func_token = "arg"
       /\ func_token' = "none" /\ open_parens' = open_parens - 1
       /\ UNCHANGED <<tokens, parsed>>
    \/ /\ open_parens > 0 /\ func_token # "arg" /\ Follows(")")
       /\ add_token(")") /\ open_parens' = open_parens - 1 /\ UNCHANGED func_token
    \/ (open_parens = 0 \/ (func_token # "arg" /\ ~Follows(")"))) /\ Error

\* Inside a function's argument anything goes.
argument(w) == func_token = "arg" /\ w \notin {"(", ")"} /\ UNCHANGED <<tokens, func_token, open_parens, parsed>>

operator(w) ==
    /\ w \in Operator /\ func_token # "arg"
    /\ IF Follows(w) THEN add_token(w) /\ UNCHANGED <<func_token, open_parens>> ELSE Error

name(w) ==
    /\ w \in {"true", "f", "x"} /\ func_token # "arg"
    /\ IF func_token = "none" /\ Follows(w) /\ w # "x"
       THEN /\ add_token(w)
            /\ func_token' = IF w = "f" THEN "name" ELSE "none"
            /\ UNCHANGED open_parens
       ELSE Error

parser_word(w) ==
    /\ parsed = "reading" /\ read < MaxText
    /\ read' = read + 1
    /\ \/ w = "(" /\ open_paren
       \/ w = ")" /\ close_paren
       \/ argument(w) \/ operator(w) \/ name(w)

parser_end ==
    /\ parsed = "reading"
    /\ parsed' = IF open_parens > 0 \/ last_token \in Operator THEN "error" ELSE "tokens"
    /\ UNCHANGED <<read, tokens, func_token, open_parens>>

parserNext == (\E w \in Word : parser_word(w)) \/ parser_end
-----------------------------------------------------------------------------
(* parser_execute, with v as the result of every function.  Each parenthesis   *)
(* is a call of parser_execute_recursive; a call keeps its operands and its    *)
(* operator, and whether the next operand is negated.  The last of the calls   *)
(* that are under way reads the tokens; result is what the first one returns.  *)

Frame == [lhs : Value, rhs : Value, op : {"T_NONE", "&&", "||"}, neg : BOOLEAN]
NewFrame == [lhs |-> "NONE", rhs |-> "NONE", op |-> "T_NONE", neg |-> FALSE]
Execution(s) == [depth : 1 .. Len(s) + 1, calls : [1 .. Len(s) + 1 -> Frame], result : Value \cup {"unknown"}]

Bool(x) == IF x THEN "TRUE" ELSE "FALSE"
Not(r) == Bool(r = "FALSE")

parser_eval_binary(l) ==
    IF "NONE" \in {l.lhs, l.rhs} \/ l.op = "T_NONE" THEN l
    ELSE [l EXCEPT !.rhs = "NONE", !.op = "T_NONE",
            !.lhs = Bool(IF l.op = "&&" THEN l.lhs = "TRUE" /\ l.rhs = "TRUE" ELSE "TRUE" \in {l.lhs, l.rhs})]

\* A function is not called when the left side decides.
Called(l, v) ==
    IF l.lhs = "FALSE" /\ l.op = "&&" THEN "FALSE" ELSE IF l.lhs = "TRUE" /\ l.op = "||" THEN "TRUE" ELSE v

Take(l, r) ==
    LET value == IF l.neg THEN Not(r) ELSE r IN
    IF l.lhs = "NONE" THEN [l EXCEPT !.lhs = value, !.neg = FALSE]
    ELSE [l EXCEPT !.rhs = IF @ = "NONE" THEN value ELSE @, !.neg = FALSE]

\* The d-th call gets an operand; if there is none, it and all before it return.
Given(d, calls, r) ==
    IF r = "NONE" THEN [depth |-> d, calls |-> calls, result |-> "NONE"]
    ELSE [depth |-> d, calls |-> [calls EXCEPT ![d] = Take(@, r)], result |-> "unknown"]

parser_execute_recursive(x, t, v) ==
    LET d == x.depth
        l == parser_eval_binary(x.calls[d])
        ready == [x.calls EXCEPT ![d] = l]
    IN CASE x.result # "unknown" -> x
         [] x.result = "unknown" /\ t = "(" -> [x EXCEPT !.depth = d + 1, !.calls = [ready EXCEPT ![d + 1] = NewFrame]]
         [] x.result = "unknown" /\ t = ")" -> IF d = 1 THEN [x EXCEPT !.result = l.lhs] ELSE Given(d - 1, ready, l.lhs)
         [] x.result = "unknown" /\ t = "!" -> [x EXCEPT !.calls = [ready EXCEPT ![d] = [l EXCEPT !.neg = ~@]]]
         [] x.result = "unknown" /\ t \in {"&&", "||"} -> [x EXCEPT !.calls = [ready EXCEPT ![d] = [l EXCEPT !.op = t]]]
         [] OTHER -> Given(d, ready, IF t = "f" THEN Called(l, v) ELSE "TRUE")

\* After each token of s
Executing(s, v) ==
    LET run[k \in 0 .. Len(s)] ==
          IF k = 0 THEN [depth |-> 1, calls |-> [d \in 1 .. Len(s) + 1 |-> NewFrame], result |-> "unknown"]
          ELSE parser_execute_recursive(run[k - 1], s[k], v)
    IN run

\* Parentheses are closed, and so the first call is left when the tokens end.
parser_execute(s, v) ==
    LET x == Executing(s, v)[Len(s)] IN
    IF s = <<>> THEN "NONE" ELSE IF x.result = "unknown" THEN parser_eval_binary(x.calls[1]).lhs ELSE x.result
-----------------------------------------------------------------------------
(* What a rule means: an expression is an operand, or an expression, an        *)
(* operator and an operand; the last operator outside of parentheses is the    *)
(* one that splits it.                                                         *)

Depth(s, i) == Cardinality({j \in 1 .. i : s[j] = "("}) - Cardinality({j \in 1 .. i : s[j] = ")"})
Splits(s, i, j) == {k \in i .. j : s[k] \in {"&&", "||"} /\ Depth(s, k) = Depth(s, i - 1)}
Rightmost(I) == CHOOSE i \in I : \A j \in I : j <= i

Segments(s) == (1 .. Len(s) + 1) \X (0 .. Len(s))

\* What the tokens from the i-th to the j-th mean, if shorter ones mean what m says.
Operation(s, m, i, k, j) ==
    LET l == m[<<i, k - 1>>]
        function == s[j] = "f" /\ (k + 1 = j \/ (k + 2 = j /\ s[k + 1] = "!"))
        r == IF l = Bool(s[k] = "||") /\ function THEN "FALSE" ELSE m[<<k + 1, j>>]
    IN IF "NONE" \in {l, r} THEN "NONE"
       ELSE IF s[k] = "&&" THEN Bool(l = "TRUE" /\ r = "TRUE") ELSE Bool("TRUE" \in {l, r})

Expression(s, v, m, i, j) ==
    IF j < i THEN "NONE"
    ELSE IF Splits(s, i, j) # {} THEN Operation(s, m, i, Rightmost(Splits(s, i, j)), j)
    ELSE IF s[i] = "!" THEN (IF m[<<i + 1, j>>] = "NONE" THEN "NONE" ELSE Not(m[<<i + 1, j>>]))
    ELSE IF s[i] = "(" THEN (IF j < i + 2 \/ s[j] # ")" THEN "NONE" ELSE m[<<i + 1, j - 1>>])
    ELSE IF i # j THEN "NONE" ELSE IF s[i] = "true" THEN "TRUE" ELSE IF s[i] = "f" THEN v ELSE "NONE"

\* meaning[n]: of up to n tokens
Meanings(s, v) ==
    LET meaning[n \in 0 .. Len(s)] ==
          [p \in Segments(s) |-> IF n = 0 THEN "NONE" ELSE Expression(s, v, meaning[n - 1], p[1], p[2])]
    IN meaning

Meaning(s, v) == Meanings(s, v)[Len(s)][<<1, Len(s)>>]

ParserTypeOK ==
    /\ read \in 0 .. MaxText /\ tokens \in Seq(Word)
    /\ func_token \in {"none", "name", "arg"} /\ open_parens \in Nat
    /\ parsed \in {"reading", "error", "tokens"}

\* A rule that parser_tokenize takes is an expression, and parser_execute gives it its meaning,
\* whatever its functions say: with an empty rule alone there is nothing to evaluate.
ParserSound ==
    /\ ParserTypeOK
    /\ parsed = "tokens" => /\ \A v \in Value : parser_execute(tokens, v) = Meaning(tokens, v)
                            /\ tokens # <<>> => Meaning(tokens, "TRUE") # "NONE"
=============================================================================
