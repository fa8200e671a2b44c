---------------------------- MODULE MCRoleElection ----------------------------
EXTENDS RoleElection

CONSTANTS x, y
=============================================================================
