------------------------- MODULE MCHistorianQuery -------------------------
(***************************************************************************)
(* Small instances of HistorianQuery for TLC.                             *)
(***************************************************************************)
EXTENDS HistorianQuery

MCNames == {"Ta", "ta", "Tb"}
MCLower(n) == IF n = "Tb" THEN "tb" ELSE "ta"
MCHash(k) == "md5:" \o k

Pt(topic, source, ts, value, meta, coerces) ==
    [topic |-> topic, source |-> source, ts |-> ts, value |-> value,
     meta |-> meta, coerces |-> coerces]

\* Two device rows of one topic under two spellings, a repeated key, and a
\* datalogger point.
QueryStream ==
    << Pt("Ta", "scrape", 2, "v1", "m1", TRUE),
       Pt("ta", "scrape", 1, "v2", "m1", TRUE),
       Pt("Tb", "log", 1, "v1", "m2", TRUE),
       Pt("ta", "scrape", 2, "v2", "m2", TRUE) >>

\* Two device rows of one topic, for runs that enumerate every kind of
\* query input.
TwoPointStream == << Pt("ta", "scrape", 2, "v1", "m1", TRUE),
                     Pt("ta", "scrape", 1, "v2", "m1", TRUE) >>
=============================================================================
