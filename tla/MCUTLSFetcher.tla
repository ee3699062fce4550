--------------------------- MODULE MCUTLSFetcher ----------------------------
EXTENDS FetcherHistory
=============================================================================
