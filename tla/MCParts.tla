------------------------------ MODULE MCParts ------------------------------
EXTENDS Parts

\* The proxy binds a port, the quality service does not.
TwoServices == <<"proxy", "quality">>

=============================================================================
