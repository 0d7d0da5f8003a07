---------------------------- MODULE MCCrawServer -----------------------------
EXTENDS CrawServer
==============================================================================
