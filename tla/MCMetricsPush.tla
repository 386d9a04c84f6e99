---------------------------- MODULE MCMetricsPush ----------------------------
EXTENDS MetricsPush
=============================================================================
