---------------------------- MODULE MCChatWindow ----------------------------
EXTENDS ChatWindow
=============================================================================
