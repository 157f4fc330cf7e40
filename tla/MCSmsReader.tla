----------------------------- MODULE MCSmsReader -----------------------------
EXTENDS SmsReader, TLC
CONSTANTS a1, a2, bank, mobile, r1, r2
=============================================================================
