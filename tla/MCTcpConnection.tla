--------------------------- MODULE MCTcpConnection ---------------------------
(* TcpConnection.tla on a small instance.                                  *)
EXTENDS TcpConnection

CONSTANTS a, b, c, d, x, y

TwoMessages == {<<a, b, c>>, <<d>>}
TwoBytes == <<x, y>>
=============================================================================
