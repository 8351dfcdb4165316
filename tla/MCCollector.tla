---- MODULE MCCollector ----
EXTENDS Collector

====
