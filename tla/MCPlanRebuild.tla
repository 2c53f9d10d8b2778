--------------------------- MODULE MCPlanRebuild ---------------------------
EXTENDS PlanRebuild
Backoffs == <<3, 6, 12>>
=============================================================================
