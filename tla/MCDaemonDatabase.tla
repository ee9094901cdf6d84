-------------------------- MODULE MCDaemonDatabase --------------------------
(* An instance of DaemonDatabase: two firings at once, two backfills, one    *)
(* series and one city.                                                      *)
EXTENDS DaemonDatabase

MCJob == {"job1", "job2"}
MCBackfill == {"backfill1", "backfill2"}
MCKalshiPulls == <<"markets", "orderbooks">>
MCWeatherPulls == <<"ensemble", "nws">>
MCNwsPulls == {"nws"}
=============================================================================
