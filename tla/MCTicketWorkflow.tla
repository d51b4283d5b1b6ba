-------------------------- MODULE MCTicketWorkflow --------------------------
EXTENDS TicketWorkflow
MCActions == {"refund", "none"}
MCRequireApproval == {"refund"}
=============================================================================
