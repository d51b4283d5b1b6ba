---------------------------- MODULE MCRateLimiter ----------------------------
EXTENDS RateLimiter
=============================================================================
