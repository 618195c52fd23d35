----------------------------- MODULE MCCrawler ------------------------------
EXTENDS Crawler
=============================================================================
