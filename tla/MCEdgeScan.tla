----------------------------- MODULE MCEdgeScan -----------------------------
(* Small instances of EdgeScan: a ladder of three markets on one day and a    *)
(* market of the next day.                                                   *)
EXTENDS EdgeScan

MCEvents == <<"e1", "e2">>
MCListed == [e \in {"e1", "e2"} |-> IF e = "e1" THEN <<"less", "mid", "greater">> ELSE <<"next">>]
MCMarkets == {"less", "mid", "greater", "next"}
MCEventOf == [t \in MCMarkets |-> IF t = "next" THEN "e2" ELSE "e1"]
MCDayOf == [e \in {"e1", "e2"} |-> IF e = "e1" THEN 1 ELSE 2]

Contract(type, floor, cap) == [type |-> type, floor |-> floor, cap |-> cap]

\* Below 70, 70 to 71, above 71; the other day's market as legacy payloads have
\* it.  Or with the cap of the middle rung missing.
MCLadders ==
  LET whole == [t \in MCMarkets |->
                  CASE t = "less" -> Contract("less", None, 70)
                    [] t = "mid" -> Contract("between", 70, 71)
                    [] t = "greater" -> Contract("greater", 71, None)
                    [] t = "next" -> Contract("less", 72, None)]
  IN {whole, [whole EXCEPT !["mid"].cap = None]}

\* An order book that could not be fetched or has one side, a listing with both
\* quotes, and one whose bid is older than the book's ask and crosses it.
MCListings ==
  LET market(bid, ask, yes, no) ==
        [listed |-> [bid |-> bid, ask |-> ask], book |-> [yes |-> yes, no |-> no]]
      thin == market(None, None, {}, {90, 75})
      tight == market(68, 70, {}, {})
      crossed == market(60, None, {40}, {55})
  IN [t \in MCMarkets |->
        CASE t = "less" -> {tight, crossed}
          [] t = "mid" -> {thin, tight, crossed}
          [] t \in {"greater", "next"} -> {thin, tight}]

Column(first, night, second) ==
  <<[day |-> 1, temp |-> first], [day |-> 1, temp |-> night], [day |-> 2, temp |-> second]>>

\* Around the ladder; far below it on the first day; with the second day
\* missing and no spread; with a member's warm hours missing and another
\* without second day; far above it.
MCForecasts ==
  {<<Column(69, 60, 70), Column(70, 60, 71), Column(72, 60, 73)>>,
   <<Column(62, 50, 80), Column(63, 50, 81), Column(63, 50, 82)>>,
   <<Column(71, 60, None), Column(71, 60, None), Column(60, 71, None)>>,
   <<Column(70, 60, 60), Column(None, 60, 61), Column(72, 60, None)>>,
   <<Column(78, 60, 66), Column(79, 60, 72), Column(81, 60, 72)>>}

Period(day, daytime, temp, unit) ==
  [day |-> day, daytime |-> daytime, temp |-> temp, unit |-> unit]

\* The request failed; highs near the first ensemble, one in Celsius; a high
\* far from it before a night near it.
MCPointForecasts ==
  {<<>>,
   <<Period(1, TRUE, 71, "F"), Period(1, FALSE, 55, "F"), Period(2, TRUE, 22, "C")>>,
   <<Period(1, TRUE, 78, "F"), Period(1, FALSE, 70, "F"), Period(2, TRUE, None, "F")>>}

\* Bandwidths of a half and of two degrees.
MCKernels == {<<9772>>, <<6915, 8413, 9332, 9772>>}

\* The markets of the ladder close together, near or far from now, or apart, one
\* of them without a close time; the other day's is near, far or without one.
MCCloses ==
  LET close(less, mid, greater, other) ==
        [t \in MCMarkets |-> CASE t = "less" -> less [] t = "mid" -> mid
                               [] t = "greater" -> greater [] t = "next" -> other]
  IN UNION {{close(3, 3, 3, h), close(9, 9, 9, h), close(None, 3, 9, h), close(9, None, 3, h)} :
            h \in {None, 3, 9}}
=============================================================================
