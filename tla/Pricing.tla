------------------------------ MODULE Pricing ------------------------------
(***************************************************************************)
(* The arithmetic of internal/pricing/pricing.go and the extraction of     *)
(* token usage in internal/handler/relay.go: prices as the operator writes *)
(* them, compiled prices, the look-up by model name, and the cost of a     *)
(* response.  Everything here is a pure function of its arguments.         *)
(*                                                                         *)
(* A model name is a sequence, for its prefixes.  A price that is written  *)
(* is blank, not a number, or a number of dollars per million tokens,      *)
(* given here in micro-dollars.  A markup is a positive fraction, as every *)
(* positive float64 is.                                                    *)
(***************************************************************************)
EXTENDS Integers, SequencesExt

CONSTANTS
    Million,  \* 1_000_000: micro-dollars in a dollar, tokens in a price unit
    Half      \* 2^63: prices are compiled to integers from -Half to Half - 1

ASSUME PricingAssumption ==
    /\ Million \in Nat \ {0}
    /\ Half \in Nat \ {0}

(***************************************************************************)
(* Prices                                                                  *)
(***************************************************************************)

Blank == [kind |-> "blank"]

NotANumber == [kind |-> "text"]

\* A number: its whole micro-dollars, and whether there is nothing below them.
Dollars(micros, whole) == [kind |-> "number", micros |-> micros, whole |-> whole]

Text == {Blank, NotANumber} \cup [kind : {"number"}, micros : Int, whole : BOOLEAN]

\* The parser's errors: empty, no number, below zero, more than 6 decimals.
Parses(t) == t.kind = "number" /\ t.micros >= 0 /\ t.whole

\* big.Int's Int64 keeps the low bits of what does not fit.
Int64(n) == ((n + Half) % (2 * Half)) - Half

parseUSDToMicros(t) == Int64(t.micros)

\* A written price has an input, an output and a cached input price.
Compiles(p) ==
    /\ Parses(p.input)
    /\ Parses(p.output)
    /\ p.cached # Blank => Parses(p.cached)

\* A blank cached price is the input price.
compilePrice(p) ==
    [input  |-> parseUSDToMicros(p.input),
     output |-> parseUSDToMicros(p.output),
     cached |-> parseUSDToMicros(IF p.cached = Blank THEN p.input ELSE p.cached)]

(***************************************************************************)
(* The price table                                                         *)
(***************************************************************************)

\* Mutant of PrefixOrders: the keys stay in the order of the map.
AnyOrders(keys) == SetToSeqs(keys)

\* Table.prefixes: NewTable takes the keys in the order of a map, which is any,
\* and sorts them by length, longest first, which leaves ties in any order.
PrefixOrders(keys) ==
    {o \in SetToSeqs(keys) :
        \A i, j \in DOMAIN o : i < j => Len(o[i]) >= Len(o[j])}

\* Table.priceFor: the model itself, the first prefix of it in the list, or the
\* default price.
priceFor(models, order, default, name) ==
    LET hits == {i \in DOMAIN order : IsPrefix(order[i], name)}
    IN  IF name \in DOMAIN models THEN models[name]
        ELSE IF hits = {} THEN default
        ELSE models[order[CHOOSE i \in hits : \A j \in hits : i <= j]]

(***************************************************************************)
(* The cost of a response                                                  *)
(***************************************************************************)

NonNegative(n) == IF n > 0 THEN n ELSE 0

AtMost(n, bound) == IF n < bound THEN n ELSE bound

\* Cached tokens are part of the prompt tokens and never more than those.
Cached(u) == AtMost(NonNegative(u.cached), NonNegative(u.prompt))

\* big.Int's Quo cuts towards zero.
Quo(a, b) == IF a >= 0 THEN a \div b ELSE -((-a) \div b)

ceilRat(a, b) == Quo(a, b) + (IF a % b = 0 THEN 0 ELSE 1)

\* Tokens times prices, in millionths of a base unit.
Worth(p, u) ==
    (NonNegative(u.prompt) - Cached(u)) * p.input + Cached(u) * p.cached
        + NonNegative(u.completion) * p.output

Units(p, u) == (Worth(p, u) + Million - 1) \div Million

WithMarkup(units, mk) ==
    IF mk.num = mk.den THEN units ELSE ceilRat(units * mk.num, mk.den)

\* Mutant of CostMicroUSDC: the cost is rounded down.
CostFloor(p, u, mk) == (Worth(p, u) * mk.num) \div (Million * mk.den)

\* Rounded up to base units, multiplied by the markup and rounded up again; what
\* was used costs at least one unit.
CostMicroUSDC(p, u, mk) ==
    LET total == WithMarkup(Units(p, u), mk)
    IN  IF total = 0 /\ (u.prompt > 0 \/ u.completion > 0) THEN 1 ELSE total

(***************************************************************************)
(* Token usage (internal/handler/relay.go)                                 *)
(***************************************************************************)

FirstNonZero(a, b, c) == IF a # 0 THEN a ELSE IF b # 0 THEN b ELSE c

\* OpenAI's names first; the others only if those report no tokens at all.
extractUsage(e) ==
    LET openAI == e.prompt_tokens # 0 \/ e.completion_tokens # 0
    IN  [prompt     |-> IF openAI THEN e.prompt_tokens ELSE e.input_tokens,
         completion |-> IF openAI THEN e.completion_tokens ELSE e.output_tokens,
         cached     |-> FirstNonZero(e.prompt_cached, e.input_cached, e.cache_read)]

HasUsage(u) == u.prompt # 0 \/ u.completion # 0

\* Mutant of receipt: the input header counts the cached tokens too.
receiptGross(u, p) ==
    [input |-> u.prompt, cached |-> u.cached, output |-> u.completion, price |-> p]

\* The X-Usage and X-Price headers of a paid response.
receipt(u, p) ==
    [input |-> NonNegative(u.prompt - u.cached), cached |-> u.cached,
     output |-> u.completion, price |-> p]
=============================================================================
