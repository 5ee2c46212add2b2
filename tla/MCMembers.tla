----------------------------- MODULE MCMembers ------------------------------
EXTENDS Occupancy
============================================================================
