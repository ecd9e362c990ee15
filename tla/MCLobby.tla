------------------------------- MODULE MCLobby -------------------------------
EXTENDS Lobby
=============================================================================
