--------------------------- MODULE MCPricedRelay ---------------------------
(* An instance of PricedRelay for TLC: two models of which one is a prefix  *)
(* of the other, prices in units of a quarter, integers of six bits.        *)
EXTENDS PricedRelay

Short == <<"a">>
Long == <<"a", "b">>

MCLetters == {"a", "b", "c"}

MCModels == {Short, Long}

MCNames == {Long, <<"a", "b", "c">>, <<"b">>}

Price(input, output, cached) == [input |-> input, output |-> output, cached |-> cached]

Whole(n) == Dollars(n, TRUE)

\* One with a price for cached input, one too large for the integers, and what
\* the parser refuses.
MCWritten ==
    {Price(Whole(5), Whole(7), Whole(1)),
     Price(Whole(33), Whole(1), Blank),
     Price(Whole(-1), Whole(1), Blank),
     Price(Whole(1), Dollars(1, FALSE), Blank),
     Price(Blank, Whole(1), Blank),
     Price(Whole(1), Whole(1), NotANumber)}

MCPrices == {p \in MCWritten : Compiles(p)}

MCDefaultPrice == Price(Whole(3), Whole(0), Blank)

MCDefaults == [m \in {Short} |-> Price(Whole(5), Whole(7), Whole(1))]

Report(p, c, i, o, pc, ic, cr) ==
    [prompt_tokens |-> p, completion_tokens |-> c, input_tokens |-> i,
     output_tokens |-> o, prompt_cached |-> pc, input_cached |-> ic,
     cache_read |-> cr]

\* OpenAI's shape, Anthropic's with more cached than other input, output alone,
\* nonsense, and a response without usage.
MCReports ==
    {Report(3, 2, 0, 0, 2, 0, 0), Report(0, 0, 1, 2, 0, 0, 3),
     Report(0, 1, 0, 0, 0, 0, 0), Report(-1, 0, 0, 0, -1, 0, 0),
     Report(0, 0, 0, 0, 0, 0, 0)}

MCMarkup == [num |-> 3, den |-> 2]

MCMarkups == {MCMarkup}
=============================================================================
