----------------------------- MODULE MCTemporal -----------------------------
(* Instances of Temporal for TLC. *)
EXTENDS Temporal

Dates ==
    {<< 2023, 2, d >> : d \in 22..28}        \* the end of a short February
    \union {<< 2023, 12, d >> : d \in 18..31} \* the turn of the year
    \union {<< 2024, 2, d >> : d \in 19..29}  \* the end of a leap February
    \union {<< 2024, 3, 1 >>, << 2024, 4, 30 >>, << 2024, 5, 31 >>}

\* Midnight, a minute before 18:00, 18:00, a minute after, the last minute.
MCAnchors ==
    {[year |-> d[1], month |-> d[2], day |-> d[3], minute |-> t] :
        d \in Dates, t \in {0, 1079, 1080, 1081, 1439}}

Text(words) == [words |-> words, n |-> 0, month |-> 0, year |-> 0]
Number(n, words) == [Text(words) EXCEPT !.n = n]

MCPhrases ==
    {Text(w) : w \in
        {<< "today" >>, << "by", "eod" >>, << "tomorrow" >>, << "tomorrow", "morning" >>,
         << "end", "of", "week" >>, << "by", "end", "of", "month" >>, << "next", "week" >>,
         << "by", "the", "end", "of", "the", "month" >>, << "sometime soon" >>,
         << "no", "later", "than", "friday" >>, << "someday" >>}}
    \union {Text(<< day >>) : day \in {"monday", "wed", "friday", "sunday"}}
    \union {Number(n, << "in", "N", unit >>) : n \in {0, 2}, unit \in {"days", "hours"}}
    \union {Number(n, << "N", "business", "days" >>) : n \in {0, 1, 2, 5, 6, 11}}
    \union {Number(3, << "in", "N" >> \o kind \o << "working", "days" >>) :
              kind \in {<< >>, << "business" >>}}
    \union {Number(n, << "feb", "N" >>) : n \in {22, 28, 29, 30}}
    \union {Number(n, << "by", "december", "N" >>) : n \in {18, 31}}
    \union {[Number(n, << "N/N" >>) EXCEPT !.month = 2, !.year = y] :
              n \in {24, 29}, y \in {0, 24, 2025}}

Holders ==
    [key \in {"mon", "wed", "fri", "sun", "soon", "later", "tomorrow", "morning", "working"} |->
        CASE key = "mon"  -> {"monday", "mon", "month"}
          [] key = "wed"  -> {"wed", "wednesday"}
          [] key = "fri"  -> {"friday"}
          [] key = "sun"  -> {"sunday"}
          [] key = "soon" -> {"sometime soon"}
          [] OTHER        -> {key}]

MCInside(word) == {key \in DOMAIN Holders : word \in Holders[key]}

=============================================================================
