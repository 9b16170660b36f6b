---------------------------- MODULE MCGatewayRole ----------------------------
EXTENDS GatewayRole

CONSTANTS g1, g2
=============================================================================
