------------------------------ MODULE MCBenchRun ------------------------------
\* A small instance of BenchRun: two jobs at a time, two pages, small prices.
EXTENDS BenchRun

MCCosts == {0, 1}
=============================================================================
