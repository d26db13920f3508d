----------------------------- MODULE ExprParse -----------------------------
(***************************************************************************)
(* The expression front end: lin_next_token (transpile/c/lin_c/lin_token.c)*)
(* and the Pratt parser with its flat arena (lin_parse.c, lin_ast.c).      *)
(*                                                                         *)
(* The parser is recursive; "calls" is its call stack, one record for each *)
(* activation that waits for the node of a callee:                         *)
(*   operand, binary   parse_expression, for its left or right operand     *)
(*   unary, paren, arg parse_primary, for what follows +, -, ( or a comma  *)
(* A record keeps p->depth as it was on entry; an activation that returns  *)
(* at once (a literal, a variable) never appears.  Node numbers and        *)
(* positions count from 0, as in the code.                                 *)
(***************************************************************************)
EXTENDS Integers, Sequences

CONSTANTS
    Digit,           \* the digits, each with its value
    Letters,         \* characters an identifier is made of, digits aside
    ArenaCap,        \* LIN_ARENA_CAP
    ParserMaxDepth,  \* LIN_PARSER_MAX_DEPTH
    MaxArgs          \* LIN_MAX_ARGS

ASSUME ParserAssumption ==
    /\ ArenaCap \in Nat
    /\ ParserMaxDepth \in Nat
    /\ MaxArgs \in Nat \ {0}

VARIABLES
    src,      \* p->src, a sequence of characters
    pos,      \* p->pos
    arena,    \* p->arena, the nodes added so far
    calls,    \* activations of the parser, the newest last
    depth,    \* p->depth
    node,     \* the node the newest call returned
    parsing   \* "primary": about to enter parse_primary; "return": a call has
              \* returned node; otherwise LinErr of the parse

parseVars == <<src, pos, arena, calls, depth, node, parsing>>

-----------------------------------------------------------------------------
(***************************************************************************)
(* Tokens                                                                  *)
(***************************************************************************)
Space == {" ", "\t", "\r", "\n"}

\* The first position from p on whose character is not one of S.
RunEnd(p, S) ==
    CHOOSE q \in p..Len(src) :
        /\ \A i \in p + 1..q : src[i] \in S
        /\ q < Len(src) => src[q + 1] \notin S

\* Operators of one character, and those a "=" makes longer.
Single == {"+", "-", "*", "/", "%", "<", ">", "(", ")", ","}
Doubled == {"=", "!", "<", ">"}

WithEquals(c) ==
    CASE c = "=" -> "==" [] c = "!" -> "!=" [] c = "<" -> "<=" [] c = ">" -> ">="

Token(kind, text, end) == [kind |-> kind, text |-> text, end |-> end]

\* lin_next_token from position p: its kind, the text of a literal or name, and
\* the position after it.  A number runs on to a letter only in an invalid token.
NextToken(p) ==
    LET s == RunEnd(p, Space)
        ident == Letters \cup DOMAIN Digit
        word(S) == SubSeq(src, s + 1, RunEnd(s, S))
        digits == RunEnd(s, DOMAIN Digit)
    IN  IF s = Len(src) THEN Token("EOF", <<>>, s)
        ELSE IF src[s + 1] \in DOMAIN Digit
        THEN IF digits < Len(src) /\ src[digits + 1] \in Letters
             THEN Token("INVALID", <<>>, digits)
             ELSE Token("INT_LIT", word(DOMAIN Digit), digits)
        ELSE IF src[s + 1] \in Letters
        THEN Token("IDENT", word(ident), RunEnd(s, ident))
        ELSE IF src[s + 1] \in Doubled /\ s + 1 < Len(src) /\ src[s + 2] = "="
        THEN Token(WithEquals(src[s + 1]), <<>>, s + 2)
        ELSE IF src[s + 1] \in Single
        THEN Token(src[s + 1], <<>>, s + 1)
        ELSE Token("INVALID", <<>>, s + 1)

\* peek
look == NextToken(pos)

Comparisons == {"==", "!=", "<", "<=", ">", ">="}
Additions == {"+", "-"}
Products == {"*", "/", "%"}

get_precedence(kind) ==
    CASE kind \in Comparisons -> 1
      [] kind \in Additions -> 2
      [] kind \in Products -> 3
      [] OTHER -> 0

-----------------------------------------------------------------------------
(***************************************************************************)
(* The arena and the call stack                                            *)
(***************************************************************************)
Leaf == {"lit", "var_ref"}
UnaryTags == {"unary_pos", "unary_neg"}
BinaryTags == Comparisons \cup Additions \cup Products

AstNode(tag, lhs, rhs, text) == [tag |-> tag, lhs |-> lhs, rhs |-> rhs, text |-> text]

Waiting == {"operand", "binary", "unary", "paren", "arg"}

Activation(wait, min, op, left, text, args) ==
    [wait |-> wait, min |-> min, op |-> op, left |-> left, text |-> text,
     args |-> args, depth |-> depth]

top_call == calls[Len(calls)]
Callers == SubSeq(calls, 1, Len(calls) - 1)

\* parse_expression(p, min, ..) calls parse_primary first.
Expression(min) == Activation("operand", min, "none", 0, <<>>, <<>>)

ParseFails(e) ==
    /\ parsing' = e
    /\ UNCHANGED <<src, pos, arena, calls, depth, node>>

\* ast_arena_add for each of new in turn; the last one is returned to the caller,
\* whose activations are stack.
AddAndReturn(new, stack) ==
    IF Len(arena) + Len(new) <= ArenaCap
    THEN /\ arena' = arena \o new
         /\ node' = Len(arena) + Len(new) - 1
         /\ calls' = stack
         /\ parsing' = "return"
    ELSE /\ parsing' = "ARENA_OOM"
         /\ UNCHANGED <<arena, node, calls>>

\* Wait for the primary that the activations added to stack begin with.
Descend(stack) ==
    /\ calls' = stack
    /\ parsing' = "primary"
    /\ UNCHANGED <<arena, node>>

-----------------------------------------------------------------------------
(***************************************************************************)
(* parse_primary                                                           *)
(***************************************************************************)

\* Mutant: the depth is not looked at.
EnteringUnchecked(kinds) == parsing = "primary" /\ look.kind \in kinds

\* parse_primary is entered and its first token is one of kinds.
Entering(kinds) ==
    /\ parsing = "primary"
    /\ depth <= ParserMaxDepth
    /\ look.kind \in kinds

TooDeep ==
    /\ parsing = "primary"
    /\ depth > ParserMaxDepth
    /\ ParseFails("PARSE_TOO_DEEP")

Literal ==
    /\ Entering({"INT_LIT"})
    /\ pos' = look.end
    /\ AddAndReturn(<<AstNode("lit", 0, 0, look.text)>>, calls)
    /\ UNCHANGED <<src, depth>>

Variable ==
    /\ Entering({"IDENT"})
    /\ NextToken(look.end).kind # "("
    /\ pos' = look.end
    /\ AddAndReturn(<<AstNode("var_ref", 0, 0, look.text)>>, calls)
    /\ UNCHANGED <<src, depth>>

\* A call without arguments takes its ")" at once.
CallBegin ==
    LET open == NextToken(look.end)
        after == NextToken(open.end)
    IN
    /\ Entering({"IDENT"})
    /\ open.kind = "("
    /\ \/ /\ after.kind = ")"
          /\ pos' = after.end
          /\ AddAndReturn(<<AstNode("call", 0, 0, look.text)>>, calls)
          /\ UNCHANGED depth
       \/ /\ after.kind # ")"
          /\ pos' = open.end
          /\ depth' = depth + 1
          /\ Descend(calls \o <<Activation("arg", 0, "none", 0, look.text, <<>>),
                                [Expression(0) EXCEPT !.depth = depth + 1]>>)
    /\ UNCHANGED src

Sign ==
    /\ Entering({"+", "-"})
    /\ pos' = look.end
    /\ depth' = depth + 1
    /\ Descend(Append(calls, Activation("unary", 0,
                   IF look.kind = "+" THEN "unary_pos" ELSE "unary_neg", 0, <<>>, <<>>)))
    /\ UNCHANGED src

Paren ==
    /\ Entering({"("})
    /\ pos' = look.end
    /\ depth' = depth + 1
    /\ Descend(calls \o <<Activation("paren", 0, "none", 0, <<>>, <<>>),
                          [Expression(0) EXCEPT !.depth = depth + 1]>>)
    /\ UNCHANGED src

Unexpected ==
    /\ parsing = "primary"
    /\ depth <= ParserMaxDepth
    /\ look.kind \notin {"INT_LIT", "IDENT", "+", "-", "("}
    /\ ParseFails("UNEXPECTED_PRIMARY")

\* The activation that waits gets node back.
Returned(waits) ==
    /\ parsing = "return"
    /\ calls # <<>>
    /\ top_call.wait \in waits

SignEnd ==
    /\ Returned({"unary"})
    /\ depth' = top_call.depth
    /\ AddAndReturn(<<AstNode(top_call.op, node, 0, <<>>)>>, Callers)
    /\ UNCHANGED <<src, pos>>

ParenEnd ==
    /\ Returned({"paren"})
    /\ \/ /\ look.kind = ")"
          /\ pos' = look.end
          /\ depth' = top_call.depth
          /\ calls' = Callers
          /\ UNCHANGED <<src, arena, node, parsing>>
       \/ look.kind # ")" /\ ParseFails("MISSING_CLOSE_PAREN")

\* The arguments become a chain of call_arg nodes, each before the next.
CallNodes(text, args) ==
    [i \in 1..Len(args) |-> AstNode("call_arg", args[i],
        IF i = 1 THEN 0 ELSE Len(arena) + i - 2, <<>>)]
      \o <<AstNode("call", Len(arena) + Len(args) - 1, 0, text)>>

ArgEnd ==
    LET args == Append(top_call.args, node) IN
    /\ Returned({"arg"})
    /\ \/ /\ look.kind = "," /\ Len(args) < MaxArgs
          /\ pos' = look.end
          /\ Descend(Callers \o <<[top_call EXCEPT !.args = args], Expression(0)>>)
          /\ UNCHANGED depth
       \/ /\ look.kind = "," /\ Len(args) >= MaxArgs
          /\ ParseFails("ARENA_OOM")
       \/ /\ look.kind = ")"
          /\ pos' = look.end
          /\ depth' = top_call.depth
          /\ AddAndReturn(CallNodes(top_call.text, args), Callers)
       \/ look.kind \notin {",", ")"} /\ ParseFails("MISSING_CLOSE_PAREN")
    /\ UNCHANGED src

-----------------------------------------------------------------------------
(***************************************************************************)
(* parse_expression and parse_full                                         *)
(***************************************************************************)

\* Mutant: an operator of the same precedence continues the right operand.
BindsRight(kind, min) == get_precedence(kind) # 0 /\ get_precedence(kind) >= min

\* The operator is taken by the activation whose minimum is min.
Binds(kind, min) == get_precedence(kind) > min

\* Mutant: the right operand is read after the new node has its number.
CombineLate ==
    /\ Returned({"binary"})
    /\ AddAndReturn(<<AstNode(top_call.op, top_call.left, Len(arena), <<>>)>>,
                    Append(Callers, [top_call EXCEPT !.wait = "operand"]))
    /\ UNCHANGED <<src, pos, depth>>

\* A right operand has come back: the two make a node, and the loop looks again.
Combine ==
    /\ Returned({"binary"})
    /\ AddAndReturn(<<AstNode(top_call.op, top_call.left, node, <<>>)>>,
                    Append(Callers, [top_call EXCEPT !.wait = "operand"]))
    /\ UNCHANGED <<src, pos, depth>>

TakeOperator ==
    /\ Returned({"operand"})
    /\ Binds(look.kind, top_call.min)
    /\ pos' = look.end
    /\ Descend(Callers \o
           <<[top_call EXCEPT !.wait = "binary", !.op = look.kind, !.left = node],
             Expression(get_precedence(look.kind))>>)
    /\ UNCHANGED <<src, depth>>

ExpressionEnd ==
    /\ Returned({"operand"})
    /\ ~Binds(look.kind, top_call.min)
    /\ calls' = Callers
    /\ UNCHANGED <<src, pos, arena, depth, node, parsing>>

\* parse_full: nothing may follow the expression.
ParseFullEnd ==
    /\ parsing = "return"
    /\ calls = <<>>
    /\ parsing' = IF look.kind = "EOF" THEN "OK" ELSE "TRAILING_TOKENS"
    /\ pos' = look.end
    /\ UNCHANGED <<src, arena, calls, depth, node>>

\* parser_init, and the call of parse_expression(p, 0, ..).
ParserInit ==
    /\ pos = 0
    /\ arena = <<>>
    /\ depth = 0
    /\ calls = <<[wait |-> "operand", min |-> 0, op |-> "none", left |-> 0,
                  text |-> <<>>, args |-> <<>>, depth |-> 0]>>
    /\ node = 0
    /\ parsing = "primary"

ParseStep ==
    \/ TooDeep \/ Literal \/ Variable \/ CallBegin \/ Sign \/ Paren \/ Unexpected
    \/ SignEnd \/ ParenEnd \/ ArgEnd \/ Combine \/ TakeOperator \/ ExpressionEnd

ParseErrors == {"PARSE_TOO_DEEP", "UNEXPECTED_PRIMARY", "MISSING_CLOSE_PAREN",
                "ARENA_OOM", "TRAILING_TOKENS"}

-----------------------------------------------------------------------------
(***************************************************************************)
(* Properties                                                              *)
(***************************************************************************)

\* A node refers only to nodes before it, so that the evaluator and the lowerer,
\* which follow the references without a bound, end and never leave the arena.
ChildrenComeFirst ==
    \A i \in DOMAIN arena :
        /\ arena[i].tag \in UnaryTags \cup BinaryTags => arena[i].lhs < i - 1
        /\ arena[i].tag \in BinaryTags => arena[i].rhs < i - 1

\* LIN_PARSER_MAX_DEPTH bounds the recursion in C although parse_expression
\* recurses without counting: between two primaries the minimum rises, so there
\* are at most four activations of parse_expression for each of parse_primary.
RecursionBounded ==
    Len(calls) <= 5 * (ParserMaxDepth + 1) + 4
=============================================================================
